---------------------------- MODULE Spec2Model ----------------------------
(***************************************************************************)
(* Reader/writer log: the monitor of rwlog.c (one mutex, two condition     *)
(* variables, four counters, a circular buffer of entries) and the driver  *)
(* of rw_main.c (writer threads, reader threads, the timer thread).        *)
(*                                                                         *)
(* Every access to the monitor's fields happens with monitor->mutex held,  *)
(* so one action is one stretch of code that runs with the mutex held:     *)
(* from pthread_mutex_lock to pthread_mutex_unlock, or to the              *)
(* pthread_cond_wait that releases it, or from the return of               *)
(* pthread_cond_wait to the next of these.  A thread blocked in            *)
(* pthread_cond_wait is at "wait"; once signalled (or woken spuriously,    *)
(* which POSIX allows at any time) it is at "woken" and still has to take  *)
(* the mutex again before it re-tests its loop condition.                  *)
(*                                                                         *)
(* stop_flag is read without the mutex.  The test of while (!stop_flag) is *)
(* a step of its own, because the rwlog_begin_* call that follows can      *)
(* block; the test in the writer's for loop is one step with the           *)
(* rwlog_append it guards, which neither reads stop_flag nor touches a     *)
(* condition variable.  The sections under stats_mutex and the usleep      *)
(* calls touch no state of the monitor and are left out, as is the         *)
(* timestamp of an entry.  next_seq is a uint64_t; the runs modelled here  *)
(* stay far below 2^64 appends.                                            *)
(*                                                                         *)
(* Spec, FairSpec and LoopSpec are the driver after rwlog_create; SigSpec  *)
(* adds the handler of SIGINT; ApiSpec is a single caller of the API with  *)
(* rwlog_create and rwlog_destroy and any arguments.                       *)
(***************************************************************************)
EXTENDS Integers, Sequences, FiniteSets, TLC

(* Bounds of the model. *)
NumReaders == 2
NumWriters == 2
Capacity == 2
Batch == 2
MaxRounds == 2
MaxAppends == 4
MaxSamples == 2
NumProducers == 2
NumConsumers == 2
MaxItems == 3
(* 10 in buffer.h; the model runs with a smaller buffer *)
BUFFER_SIZE == 2
(* allocator: the memory size given on the command line, and the number    *)
(* of process names in use                                                 *)
MemorySize == 4
NumProcesses == 3

(* Program constants. *)
SnapshotMax == 128

Readers == {<<"r", k>> : k \in 1..NumReaders}
Writers == {<<"w", k>> : k \in 1..NumWriters}
Threads == Readers \cup Writers

(* rounds when the writers' loop iterations are not bounded *)
Unlimited == 0 - 1

VARIABLES
    \* rwlog_monitor_t: synchronization state
    readers_active, readers_waiting, writers_waiting, writer_active,
    \* rwlog_monitor_t: circular buffer state
    entries, capacity, head, tail, count, next_seq,
    \* rw_main.c: globals and configuration
    stop_flag, batch_size,
    \* threads: position in the thread function, and its locals
    pc, i, snap, rounds, timer_pc,
    \* what the threads wrote to stderr
    mono_violation, append_failed,
    \* history: the sequence numbers stamped by rwlog_append, in append order
    appended,
    \* rwlog.c: the static pointer monitor, "NULL" or "live"
    monitor,
    \* the last call a single-threaded caller made, with its results
    api,
    \* sigint_handler: "none" until SIGINT is delivered
    sig_pc,
    \* rw_main.c: the position of main ("join" once all threads are created)
    rw_main,
    \* the holder of monitor->mutex, with its position when it took the
    \* mutex, and the holder of stats_mutex
    mutex, stats_mutex,
    \* rw_main.c: each worker's position around a statistics update, and
    \* the statistics aggregates
    stat_pc, writer_wait_count, reader_cs_count, total_entries_written,
    \* prodcon.c: the circular buffer, its indices and the two semaphores
    buffer, in, out, empty, full,
    \* prodcon.c: the flag main clears, the position of every producer and
    \* consumer thread and of main, and each thread's local item
    running, tpc, item, main_pc,
    \* prodcon.c, history: the items in the order they were stored in the
    \* buffer and in the order they were taken out of it; and whether a
    \* consumer saw a checksum mismatch
    inserted, removed, cksum_error,
    \* allocator.c: g_allocator
    total_size, blocks, process_count,
    \* allocator.c: the last command processed, with its outcome
    cmd

monVars == <<readers_active, readers_waiting, writers_waiting, writer_active>>
bufVars == <<entries, capacity, head, tail, count, next_seq>>
cfgVars == <<batch_size>>
thrVars == <<pc, i, snap, rounds>>
errVars == <<mono_violation, append_failed>>
statVars == <<mutex, stats_mutex, stat_pc, writer_wait_count, reader_cs_count,
              total_entries_written>>
envVars == <<monitor, api, sig_pc, rw_main, statVars>>
pcVars == <<buffer, in, out, empty, full, running, tpc, item, main_pc,
            inserted, removed, cksum_error>>
allocVars == <<total_size, blocks, process_count, cmd>>
(* the state of the other two programs of the repository *)
progVars == <<pcVars, allocVars>>
rwlogVars == <<monVars, bufVars, cfgVars, envVars, stop_flag, thrVars, timer_pc,
               errVars, appended>>
vars == <<rwlogVars, progVars>>

(***************************************************************************)
(* Helpers of rwlog.c                                                      *)
(***************************************************************************)
buffer_index(pos, cap) == pos % cap

(* The slot contents of the freshly mapped, zero-filled shared memory. *)
ZeroEntry ==
    [seq |-> 0, tid |-> <<"none", 0>>, ts |-> <<"none", 0>>,
     msg |-> <<"none", 0>>]

(* faulty variant: readers ignore queued writers (no writer preference) *)
ReaderMustWait_NoPreference == writer_active = 1

(* faulty variant: a reader does not look at writer_active *)
ReaderMustWait_IgnoresActiveWriter == writers_waiting > 0

(* faulty variant: a reader also waits for the readers that are inside *)
ReaderMustWait_Exclusive ==
    writer_active = 1 \/ writers_waiting > 0 \/ readers_active > 0

(* while-condition of rwlog_begin_read *)
ReaderMustWait == writer_active = 1 \/ writers_waiting > 0

(* faulty variant: a writer only waits for readers *)
WriterMustWait_IgnoresWriter == readers_active > 0

(* faulty variant: a writer does not wait for the readers inside *)
WriterMustWait_IgnoresReaders == writer_active = 1

(* while-condition of rwlog_begin_write *)
WriterMustWait == readers_active > 0 \/ writer_active = 1

(* faulty variant: the signal is lost *)
CondSignal_WakesNobody(p, S) == {p}

(* pthread_cond_signal on the condition the threads of S wait on: unblocks *)
(* one of the threads blocked on it, if there is one.                      *)
CondSignal(p, S) ==
    LET blocked == {t \in S : p[t] = "wait"}
    IN  IF blocked = {} THEN {p}
        ELSE {[p EXCEPT ![t] = "woken"] : t \in blocked}

(* faulty variant: the broadcast unblocks one thread only *)
CondBroadcast_WakesOne(p, S) ==
    LET blocked == {t \in S : p[t] = "wait"}
    IN  IF blocked = {} THEN p
        ELSE [p EXCEPT ![CHOOSE t \in blocked : TRUE] = "woken"]

(* pthread_cond_broadcast: unblocks all threads blocked on the condition. *)
CondBroadcast(p, S) ==
    [t \in DOMAIN p |-> IF t \in S /\ p[t] = "wait" THEN "woken" ELSE p[t]]

(* No call made yet by the single-threaded caller. *)
NoCall ==
    [op |-> "none", arg |-> 0, ret |-> 0, out |-> <<>>, was |-> "none",
     entry |-> ZeroEntry]

(* pthread_mutex_lock(&monitor->mutex) returns: not so once the handler of *)
(* SIGINT blocks in it on the thread that owns the mutex.                  *)
MutexAvailable == sig_pc # "stuck"

(* No thread to hold a mutex. *)
Nobody == <<"nobody", 0>>

Free == [owner |-> Nobody, at |-> <<>>]

(* The two mutexes are free and no statistics sample has been recorded.    *)
(* Only StatsSpec follows the threads lock by lock; everywhere else a      *)
(* region under monitor->mutex is one step and these keep their values.    *)
NoStats ==
    /\ mutex = Free
    /\ stats_mutex = Nobody
    /\ stat_pc = [t \in Threads |-> "none"]
    /\ writer_wait_count = 0
    /\ reader_cs_count = 0
    /\ total_entries_written = 0

(* The producer-consumer program is not running. *)
NoProdCon ==
    /\ buffer = <<>>
    /\ in = 0
    /\ out = 0
    /\ empty = 0
    /\ full = 0
    /\ running = 0
    /\ tpc = <<>>
    /\ item = <<>>
    /\ main_pc = "none"
    /\ inserted = <<>>
    /\ removed = <<>>
    /\ cksum_error = FALSE

(* The allocator is not running. *)
NoAllocator ==
    /\ total_size = 0
    /\ blocks = <<>>
    /\ process_count = 0
    /\ cmd = <<>>

(***************************************************************************)
(* rwlog_create, then main's thread creation                               *)
(***************************************************************************)
InitMonitor ==
    /\ readers_active = 0
    /\ readers_waiting = 0
    /\ writers_waiting = 0
    /\ writer_active = 0
    /\ capacity = Capacity
    /\ head = 0
    /\ tail = 0
    /\ count = 0
    /\ next_seq = 1
    /\ entries = [k \in 0..(Capacity - 1) |-> ZeroEntry]

InitDriver ==
    /\ stop_flag = 0
    /\ pc = [t \in Threads |-> "loop"]
    /\ i = [w \in Writers |-> 0]
    /\ snap = [r \in Readers |-> <<>>]
    /\ timer_pc = "sleep"
    /\ mono_violation = FALSE
    /\ append_failed = FALSE
    /\ appended = <<>>
    /\ monitor = "live"
    /\ api = NoCall
    /\ sig_pc = "none"
    /\ rw_main = "join"
    /\ NoStats
    /\ NoProdCon
    /\ NoAllocator

Init ==
    /\ InitMonitor
    /\ InitDriver
    /\ batch_size = Batch
    /\ rounds = MaxRounds

(***************************************************************************)
(* Reader side of the monitor                                              *)
(***************************************************************************)
(* rwlog_begin_read from the test of its while loop on, mutex held, with   *)
(* readers_waiting at `waiting`: wait (readers_waiting++, then             *)
(* pthread_cond_wait) or leave the loop and enter (readers_active++).      *)
ReaderTryEnter(r, waiting) ==
    IF ReaderMustWait
    THEN /\ readers_waiting' = waiting + 1
         /\ pc' = [pc EXCEPT ![r] = "wait"]
         /\ UNCHANGED readers_active
    ELSE /\ readers_waiting' = waiting
         /\ readers_active' = readers_active + 1
         /\ pc' = [pc EXCEPT ![r] = "snap"]

(* the call of rwlog_begin_read, up to its first wait or its return *)
BeginRead(r) ==
    /\ pc[r] = "begin"
    /\ MutexAvailable
    /\ ReaderTryEnter(r, readers_waiting)
    /\ UNCHANGED <<writers_waiting, writer_active, bufVars, progVars, cfgVars, envVars, stop_flag,
                   i, snap, rounds, timer_pc, errVars, appended>>

(* pthread_cond_wait returns in rwlog_begin_read with the mutex taken      *)
(* again: readers_waiting--, then the while condition is tested again      *)
ReaderWake(r) ==
    /\ pc[r] = "woken"
    /\ MutexAvailable
    /\ ReaderTryEnter(r, readers_waiting - 1)
    /\ UNCHANGED <<writers_waiting, writer_active, bufVars, progVars, cfgVars, envVars, stop_flag,
                   i, snap, rounds, timer_pc, errVars, appended>>

(* faulty variant: the copy starts at slot 0 instead of tail *)
rwlog_snapshot_FromSlotZero(max_entries) ==
    LET entries_to_copy == IF count < max_entries THEN count ELSE max_entries
    IN  [k \in 1..entries_to_copy |->
            entries[buffer_index(0 + (k - 1), capacity)]]

(* faulty variant: max_entries is ignored, all live entries are copied *)
rwlog_snapshot_IgnoresMax(max_entries) ==
    [k \in 1..count |-> entries[buffer_index(tail + (k - 1), capacity)]]

(* faulty variant: the copy starts at head, not at tail *)
rwlog_snapshot_FromHead(max_entries) ==
    LET entries_to_copy == IF count < max_entries THEN count ELSE max_entries
    IN  [k \in 1..entries_to_copy |->
            entries[buffer_index(head + (k - 1), capacity)]]

(* rwlog_snapshot: min(count, max_entries) entries from tail on *)
rwlog_snapshot(max_entries) ==
    LET entries_to_copy == IF count < max_entries THEN count ELSE max_entries
    IN  [k \in 1..entries_to_copy |->
            entries[buffer_index(tail + (k - 1), capacity)]]

(* faulty variant: the entries copied out are removed from the log *)
rwlog_snapshot_leaves_Consumes(max_entries) ==
    LET entries_to_copy == IF count < max_entries THEN count ELSE max_entries
    IN  /\ tail' = buffer_index(tail + entries_to_copy, capacity)
        /\ count' = count - entries_to_copy
        /\ UNCHANGED <<monVars, entries, capacity, head, next_seq>>

(* rwlog_snapshot with the mutex held: nothing of the monitor is assigned *)
rwlog_snapshot_leaves(max_entries) == UNCHANGED <<monVars, bufVars>>

(* reader_thread's check of one snapshot: does its fprintf fire? *)
MonotonicityViolated(buf) ==
    \E k \in 2..Len(buf) : buf[k].seq <= buf[k - 1].seq

(* faulty variant: the last reader out does not signal write_cond *)
rwlog_end_read_NoSignal(r, p) ==
    /\ readers_active' = readers_active - 1
    /\ pc' = p

(* faulty variant: write_cond is signalled by every reader that leaves *)
rwlog_end_read_SignalsAlways(r, p) ==
    /\ readers_active' = readers_active - 1
    /\ pc' \in CondSignal(p, Writers)

(* rwlog_end_read *)
rwlog_end_read(r, p) ==
    /\ readers_active' = readers_active - 1
    /\ IF readers_active - 1 = 0 /\ writers_waiting > 0
       THEN pc' \in CondSignal(p, Writers)
       ELSE pc' = p

(***************************************************************************)
(* reader_thread                                                           *)
(***************************************************************************)
ReaderLoopTest(r) ==
    /\ pc[r] = "loop"
    /\ pc' = [pc EXCEPT ![r] = IF stop_flag = 1 THEN "done" ELSE "begin"]
    /\ UNCHANGED <<monVars, bufVars, progVars, cfgVars, envVars, stop_flag, i, snap, rounds,
                   timer_pc, errVars, appended>>

(* rwlog_snapshot(buffer, 128) and the monotonicity check on the copy *)
ReaderSnapshot(r) ==
    /\ pc[r] = "snap"
    /\ MutexAvailable
    /\ rwlog_snapshot_leaves(SnapshotMax)
    /\ LET buf == rwlog_snapshot(SnapshotMax)
       IN  /\ snap' = [snap EXCEPT ![r] = buf]
           /\ mono_violation' = (mono_violation \/ MonotonicityViolated(buf))
    /\ pc' = [pc EXCEPT ![r] = "end"]
    /\ UNCHANGED <<progVars, cfgVars, envVars, stop_flag, i, rounds, timer_pc,
                   append_failed, appended>>

(* rwlog_end_read, then the end of the loop body (buffer goes out of scope) *)
ReaderEnd(r) ==
    /\ pc[r] = "end"
    /\ MutexAvailable
    /\ rwlog_end_read(r, [pc EXCEPT ![r] = "loop"])
    /\ snap' = [snap EXCEPT ![r] = <<>>]
    /\ UNCHANGED <<readers_waiting, writers_waiting, writer_active, bufVars,
                   progVars, cfgVars, envVars, stop_flag, i, rounds, timer_pc, errVars, appended>>

(* faulty variant: writers_waiting is not decremented on leaving the loop *)
WriterTryEnter_KeepsWaiting(w, waiting) ==
    IF WriterMustWait
    THEN /\ writers_waiting' = waiting
         /\ pc' = [pc EXCEPT ![w] = "wait"]
         /\ UNCHANGED <<writer_active, i>>
    ELSE /\ writers_waiting' = waiting
         /\ writer_active' = 1
         /\ pc' = [pc EXCEPT ![w] = "batch"]
         /\ i' = [i EXCEPT ![w] = 0]

(***************************************************************************)
(* Writer side of the monitor                                              *)
(***************************************************************************)
(* rwlog_begin_write from the test of its while loop on, mutex held, with  *)
(* writers_waiting at `waiting` (this writer counted in it): wait, or      *)
(* leave the loop, writers_waiting-- and writer_active = 1.                *)
WriterTryEnter(w, waiting) ==
    IF WriterMustWait
    THEN /\ writers_waiting' = waiting
         /\ pc' = [pc EXCEPT ![w] = "wait"]
         /\ UNCHANGED <<writer_active, i>>
    ELSE /\ writers_waiting' = waiting - 1
         /\ writer_active' = 1
         /\ pc' = [pc EXCEPT ![w] = "batch"]
         /\ i' = [i EXCEPT ![w] = 0]

(* the call of rwlog_begin_write: writers_waiting++, then the loop *)
BeginWrite(w) ==
    /\ pc[w] = "begin"
    /\ MutexAvailable
    /\ WriterTryEnter(w, writers_waiting + 1)
    /\ UNCHANGED <<readers_active, readers_waiting, bufVars, progVars, cfgVars, envVars, stop_flag,
                   snap, rounds, timer_pc, errVars, appended>>

(* pthread_cond_wait returns in rwlog_begin_write with the mutex taken again *)
WriterWake(w) ==
    /\ pc[w] = "woken"
    /\ MutexAvailable
    /\ WriterTryEnter(w, writers_waiting)
    /\ UNCHANGED <<readers_active, readers_waiting, bufVars, progVars, cfgVars, envVars, stop_flag,
                   snap, rounds, timer_pc, errVars, appended>>

(* faulty variant: the entry is stamped after the increment *)
StampedSeq_AfterIncrement == next_seq + 1

(* rwlog_append: the sequence number stamped into the stored copy, and     *)
(* next_seq after the post-increment                                       *)
StampedSeq == next_seq

(* faulty variant: next_seq is never incremented *)
NextSeqAfter_NoIncrement == next_seq

NextSeqAfter == next_seq + 1

(* faulty variant: head is never advanced *)
HeadAfter_Stuck == head

(* faulty variant: head is advanced by two slots *)
HeadAfter_SkipsSlot == buffer_index(head + 2, capacity)

(* rwlog_append: head, count and tail after the append *)
HeadAfter == buffer_index(head + 1, capacity)

(* faulty variant: count is incremented on a full buffer too *)
CountAfter_Unbounded == count + 1

CountAfter == IF count < capacity THEN count + 1 ELSE count

(* faulty variant: tail is never advanced *)
TailAfter_Stuck == tail

TailAfter == IF count < capacity THEN tail ELSE buffer_index(tail + 1, capacity)

(* faulty variant: an append on a full buffer reports failure *)
rwlog_append_ret_FullIsError == IF count = capacity THEN -1 ELSE 0

(* rwlog_append's return value, monitor and e not NULL *)
rwlog_append_ret == 0

(* the reading of the clock by get_current_time: one value, the time does  *)
(* not advance in the model                                                *)
Now == <<"clock", 0>>

(* faulty variant: the tid of the caller's entry is kept *)
StampedTid_KeepsCallerValue(self, e) == e.tid

(* rwlog_append: the tid stamped into the stored copy is pthread_self() *)
StampedTid(self, e) == self

(* rwlog_append(&e) called by thread self: *e is copied into slot head,    *)
(* then seq, tid and ts are overwritten                                    *)
rwlog_append(self, e) ==
    /\ entries' = [entries EXCEPT
                     ![head] = [e EXCEPT !.seq = StampedSeq,
                                         !.tid = StampedTid(self, e),
                                         !.ts = Now]]
    /\ next_seq' = NextSeqAfter
    /\ head' = HeadAfter
    /\ count' = CountAfter
    /\ tail' = TailAfter
    /\ appended' = Append(appended, entries'[head].seq)
    /\ UNCHANGED capacity

(* faulty variant: read_cond is signalled, not broadcast *)
rwlog_end_write_SignalsOneReader(p) ==
    /\ writer_active' = 0
    /\ IF writers_waiting > 0
       THEN pc' \in CondSignal(p, Writers)
       ELSE pc' \in CondSignal(p, Readers)

(* faulty variant: read_cond is never broadcast *)
rwlog_end_write_NoBroadcast(p) ==
    /\ writer_active' = 0
    /\ pc' \in CondSignal(p, Writers)

(* rwlog_end_write *)
rwlog_end_write(p) ==
    /\ writer_active' = 0
    /\ IF writers_waiting > 0
       THEN pc' \in CondSignal(p, Writers)
       ELSE pc' = CondBroadcast(p, Readers)

(***************************************************************************)
(* writer_thread                                                           *)
(***************************************************************************)
(* The test of while (!stop_flag).  rounds bounds the iterations the       *)
(* writers start before the run is stopped (Unlimited: no bound).          *)
WriterLoopTest(w) ==
    /\ pc[w] = "loop"
    /\ IF stop_flag = 1
       THEN /\ pc' = [pc EXCEPT ![w] = "done"]
            /\ UNCHANGED rounds
       ELSE /\ rounds # 0
            /\ rounds' = IF rounds = Unlimited THEN rounds ELSE rounds - 1
            /\ pc' = [pc EXCEPT ![w] = "begin"]
    /\ UNCHANGED <<monVars, bufVars, progVars, cfgVars, envVars, stop_flag, i, snap, timer_pc,
                   errVars, appended>>

(* faulty variant: a writer stopped in its batch goes back to the loop test *)
AfterBatchLoop_SkipsEndWrite == IF stop_flag = 1 THEN "loop" ELSE "end"

(* where writer_thread goes when its for loop ends: rwlog_end_write *)
AfterBatchLoop == "end"

(* The values an uninitialised field of the caller's entry may hold. *)
Garbage == {0, 7}

(* The body of for (i = 0; i < batch_size && !stop_flag; i++): the entry   *)
(* (msg set by snprintf, seq and tid never set) is appended; a failed      *)
(* append leaves the for loop, a successful one ends in i++.               *)
WriterAppend(w) ==
    /\ \E g \in Garbage :
         rwlog_append(w, [seq |-> g, tid |-> <<"none", g>>,
                          ts |-> <<"none", g>>, msg |-> w])
    /\ IF rwlog_append_ret # 0
       THEN /\ append_failed' = TRUE
            /\ pc' = [pc EXCEPT ![w] = "end"]
            /\ UNCHANGED i
       ELSE /\ i' = [i EXCEPT ![w] = @ + 1]
            /\ UNCHANGED <<pc, append_failed>>

(* One turn of the for loop: its test, then the body, or the end of the    *)
(* loop, which leads to rwlog_end_write.                                   *)
WriterBatch(w) ==
    /\ pc[w] = "batch"
    /\ IF i[w] < batch_size /\ stop_flag = 0
       THEN /\ MutexAvailable
            /\ WriterAppend(w)
       ELSE /\ pc' = [pc EXCEPT ![w] = AfterBatchLoop]
            /\ UNCHANGED <<bufVars, i, append_failed, appended>>
    /\ UNCHANGED <<monVars, progVars, cfgVars, envVars, stop_flag, snap, rounds, timer_pc,
                   mono_violation>>

(* rwlog_end_write, then the end of the loop body (i goes out of scope) *)
WriterEnd(w) ==
    /\ pc[w] = "end"
    /\ MutexAvailable
    /\ rwlog_end_write([pc EXCEPT ![w] = "loop"])
    /\ i' = [i EXCEPT ![w] = 0]
    /\ UNCHANGED <<readers_active, readers_waiting, writers_waiting, bufVars,
                   progVars, cfgVars, envVars, stop_flag, snap, rounds, timer_pc, errVars,
                   appended>>

(***************************************************************************)
(* timer_thread, rwlog_wake_all, and the wake-ups POSIX allows             *)
(***************************************************************************)
(* sleep(seconds) returns: stop_flag = 1 *)
TimerExpire ==
    /\ timer_pc = "sleep"
    /\ stop_flag' = 1
    /\ timer_pc' = "wake"
    /\ UNCHANGED <<monVars, bufVars, progVars, cfgVars, envVars, thrVars, errVars, appended>>

(* rwlog_wake_all: broadcast on read_cond and on write_cond *)
rwlog_wake_all(p) == CondBroadcast(CondBroadcast(p, Readers), Writers)

TimerWakeAll ==
    /\ timer_pc = "wake"
    /\ MutexAvailable
    /\ pc' = rwlog_wake_all(pc)
    /\ timer_pc' = "done"
    /\ UNCHANGED <<monVars, bufVars, progVars, cfgVars, envVars, stop_flag, i, snap, rounds,
                   errVars, appended>>

(* pthread_cond_wait may return without a signal, at any time; a call of   *)
(* rwlog_wake_all at any time changes nothing else either                  *)
SpuriousWake(t) ==
    /\ pc[t] = "wait"
    /\ pc' = [pc EXCEPT ![t] = "woken"]
    /\ UNCHANGED <<monVars, bufVars, progVars, cfgVars, envVars, stop_flag, i, snap, rounds,
                   timer_pc, errVars, appended>>

(***************************************************************************)
(* Specifications                                                          *)
(***************************************************************************)
ReaderStep(r) ==
    ReaderLoopTest(r) \/ BeginRead(r) \/ ReaderWake(r) \/ ReaderSnapshot(r)
        \/ ReaderEnd(r)

WriterStep(w) ==
    WriterLoopTest(w) \/ BeginWrite(w) \/ WriterWake(w) \/ WriterBatch(w)
        \/ WriterEnd(w)

Next ==
    \/ \E r \in Readers : ReaderStep(r)
    \/ \E w \in Writers : WriterStep(w)
    \/ TimerExpire
    \/ TimerWakeAll
    \/ \E t \in Threads : SpuriousWake(t)

Spec == Init /\ [][Next]_vars

(* Fair scheduling: a thread that can take its next step (which includes  *)
(* getting the mutex) eventually takes it.  Nothing obliges the timer to   *)
(* expire or a wait to end without a signal.                               *)
Fairness ==
    /\ \A r \in Readers : WF_vars(ReaderStep(r))
    /\ \A w \in Writers : WF_vars(WriterStep(w))

(* The run up to the expiry of the timer, under fair scheduling: the       *)
(* writers start at most MaxRounds loop iterations in all, the readers any *)
(* number.                                                                 *)
NextFair ==
    \/ \E r \in Readers : ReaderStep(r)
    \/ \E w \in Writers : WriterStep(w)
    \/ \E t \in Threads : SpuriousWake(t)

FairSpec == Init /\ [][NextFair]_vars /\ Fairness

(* The threads loop without bound: the timer has not expired, and the     *)
(* runs are those in which no wait ends without a signal.  With -b 0 no    *)
(* entry is appended and the buffer stays as created.                      *)
InitLoop ==
    /\ InitMonitor
    /\ InitDriver
    /\ batch_size = 0
    /\ rounds = Unlimited

NextLoop ==
    \/ \E r \in Readers : ReaderStep(r)
    \/ \E w \in Writers : WriterStep(w)

LoopSpec == InitLoop /\ [][NextLoop]_vars /\ Fairness

(***************************************************************************)
(* Callers that break the pairing: a thread that is inside returns without *)
(* its rwlog_end_read or rwlog_end_write and never calls the monitor       *)
(* again.  Nothing in rwlog.c knows which thread is inside, so nothing     *)
(* stops it.                                                               *)
(***************************************************************************)
AbandonBracket(t) ==
    /\ pc[t] \in {"snap", "batch", "end"}
    /\ pc' = [pc EXCEPT ![t] = "gone"]
    /\ UNCHANGED <<monVars, bufVars, progVars, cfgVars, envVars, stop_flag, i, snap,
                   rounds, timer_pc, errVars, appended>>

NextOrphan ==
    \/ NextFair
    \/ \E t \in Threads : AbandonBracket(t)

OrphanSpec == Init /\ [][NextOrphan]_vars

(***************************************************************************)
(* SIGINT: sigint_handler sets stop_flag and calls rwlog_wake_all on       *)
(* whichever thread the signal is delivered to.                            *)
(***************************************************************************)
(* The signal is delivered to a thread that does not hold the mutex (main  *)
(* in pthread_join, say): stop_flag = 1                                    *)
SigintDelivered ==
    /\ sig_pc = "none"
    /\ stop_flag' = 1
    /\ sig_pc' = "wake"
    /\ UNCHANGED <<monVars, bufVars, progVars, cfgVars, monitor, api, rw_main, statVars,
                   thrVars, timer_pc,
                   errVars, appended>>

(* ... and the handler's rwlog_wake_all *)
SigintWakeAll ==
    /\ sig_pc = "wake"
    /\ MutexAvailable
    /\ pc' = rwlog_wake_all(pc)
    /\ sig_pc' = "done"
    /\ UNCHANGED <<monVars, bufVars, progVars, cfgVars, monitor, api, rw_main, statVars,
                   stop_flag, i, snap,
                   rounds, timer_pc, errVars, appended>>

(* thread t is about to run, or runs, a stretch of code with the mutex     *)
(* held                                                                    *)
InLockedRegion(t) ==
    \/ pc[t] \in {"begin", "woken", "end"}
    \/ t \in Readers /\ pc[t] = "snap"
    \/ t \in Writers /\ pc[t] = "batch" /\ i[t] < batch_size /\ stop_flag = 0

(* What the handler's pthread_mutex_lock may do when the thread it runs on *)
(* owns the mutex (undefined for a default mutex): never return, as with   *)
(* the normal mutexes of glibc, or return, with an error that              *)
(* rwlog_wake_all ignores.                                                 *)
RelockOutcomes == {"blocks", "returns"}

(* The signal is delivered to worker thread t right after its              *)
(* pthread_mutex_lock returned.  If the handler's lock blocks, t never     *)
(* runs again and the mutex is never released; if it returns, the          *)
(* broadcasts are made (what the handler's unlock does to the interrupted  *)
(* stretch is not followed further).                                       *)
SigintInLockedRegion(t) ==
    /\ sig_pc = "none"
    /\ MutexAvailable
    /\ InLockedRegion(t)
    /\ stop_flag' = 1
    /\ \E outcome \in RelockOutcomes :
          IF outcome = "blocks"
          THEN /\ sig_pc' = "stuck"
               /\ UNCHANGED pc
          ELSE /\ sig_pc' = "done"
               /\ pc' = rwlog_wake_all(pc)
    /\ UNCHANGED <<monVars, bufVars, progVars, cfgVars, monitor, api, rw_main, statVars,
                   i, snap, rounds,
                   timer_pc, errVars, appended>>

NextSig ==
    \/ Next
    \/ SigintDelivered
    \/ SigintWakeAll
    \/ \E t \in Threads : SigintInLockedRegion(t)

(* The driver with the timer and SIGINT, under fair scheduling of the      *)
(* threads and of the handler.                                             *)
SigSpec ==
    Init /\ [][NextSig]_vars /\ Fairness /\ WF_vars(SigintWakeAll)

(***************************************************************************)
(* The API of rwlog.c under a single-threaded caller: no thread has been   *)
(* created, and main calls rwlog_create, rwlog_destroy, rwlog_append and   *)
(* rwlog_snapshot in any order and with any arguments, and the bracket     *)
(* operations while there is no monitor.  The fields of a monitor that     *)
(* does not exist are held at zero.                                        *)
(***************************************************************************)
Caller == <<"main", 0>>

Payloads == {"a", "b"}

(* was: whether there was a monitor when the call was made *)
Called(op, arg, ret, written) ==
    [op |-> op, arg |-> arg, ret |-> ret, out |-> written, was |-> monitor,
     entry |-> ZeroEntry]

(* faulty variant: a failing mmap returns -1 without releasing the monitor *)
rwlog_create_LeavesPartial(cap, fails) ==
    IF monitor # "NULL" \/ cap = 0
    THEN /\ api' = Called("create", cap, -1, <<>>)
         /\ UNCHANGED <<monitor, monVars, bufVars, appended>>
    ELSE /\ monitor' = "live"
         /\ readers_active' = 0
         /\ readers_waiting' = 0
         /\ writers_waiting' = 0
         /\ writer_active' = 0
         /\ capacity' = cap
         /\ head' = 0
         /\ tail' = 0
         /\ count' = 0
         /\ next_seq' = 1
         /\ entries' = IF fails THEN <<>> ELSE [k \in 0..(cap - 1) |-> ZeroEntry]
         /\ appended' = <<>>
         /\ api' = Called("create", cap, IF fails THEN -1 ELSE 0, <<>>)

(* rwlog_create(cap); fails stands for a failing malloc, pthread_*_init,   *)
(* shm_open, ftruncate or mmap, each of which undoes what was set up and   *)
(* leaves monitor NULL                                                     *)
rwlog_create(cap, fails) ==
    IF monitor # "NULL" \/ cap = 0 \/ fails
    THEN /\ api' = Called("create", cap, -1, <<>>)
         /\ UNCHANGED <<monitor, monVars, bufVars, appended>>
    ELSE /\ monitor' = "live"
         /\ readers_active' = 0
         /\ readers_waiting' = 0
         /\ writers_waiting' = 0
         /\ writer_active' = 0
         /\ capacity' = cap
         /\ head' = 0
         /\ tail' = 0
         /\ count' = 0
         /\ next_seq' = 1
         /\ entries' = [k \in 0..(cap - 1) |-> ZeroEntry]
         /\ appended' = <<>>
         /\ api' = Called("create", cap, 0, <<>>)

(* faulty variant: destroying what does not exist is an error *)
rwlog_destroy_ret_NullIsError == IF monitor = "NULL" THEN -1 ELSE 0

(* rwlog_destroy's return value *)
rwlog_destroy_ret == IF monitor = "NULL" THEN 0 ELSE 0

(* rwlog_destroy: nothing to do without a monitor; else the mapping, the   *)
(* primitives and the structure are released and monitor = NULL            *)
rwlog_destroy ==
    /\ api' = Called("destroy", 0, rwlog_destroy_ret, <<>>)
    /\ IF monitor = "NULL"
       THEN UNCHANGED <<monitor, monVars, bufVars, appended>>
       ELSE /\ monitor' = "NULL"
            /\ readers_active' = 0
            /\ readers_waiting' = 0
            /\ writers_waiting' = 0
            /\ writer_active' = 0
            /\ capacity' = 0
            /\ head' = 0
            /\ tail' = 0
            /\ count' = 0
            /\ next_seq' = 0
            /\ entries' = <<>>
            /\ appended' = <<>>

(* rwlog_append(e) by main; e_null: the caller passes NULL *)
ApiAppend(e_null, m, g) ==
    IF monitor = "NULL" \/ e_null
    THEN /\ api' = Called("append", 0, -1, <<>>)
         /\ UNCHANGED <<monitor, monVars, bufVars, appended>>
    ELSE /\ Len(appended) < MaxAppends
         /\ LET e == [seq |-> g, tid |-> <<"none", g>>,
                      ts |-> <<"none", g>>, msg |-> m]
            IN  /\ rwlog_append(Caller, e)
                /\ api' = [Called("append", 0, rwlog_append_ret, <<>>)
                              EXCEPT !.entry = e]
         /\ UNCHANGED <<monitor, monVars>>

(* rwlog_snapshot(buf, max_entries) by main; buf_null: the caller passes   *)
(* NULL.  out is what the call wrote to buf.                               *)
ApiSnapshot(buf_null, max_entries) ==
    /\ IF monitor = "NULL" \/ buf_null
       THEN api' = Called("snapshot", max_entries, -1, <<>>)
       ELSE IF max_entries = 0
            THEN api' = Called("snapshot", max_entries, 0, <<>>)
            ELSE LET buf == rwlog_snapshot(max_entries)
                 IN  api' = Called("snapshot", max_entries, Len(buf), buf)
    /\ IF monitor = "NULL" \/ buf_null \/ max_entries = 0
       THEN UNCHANGED <<monVars, bufVars>>
       ELSE rwlog_snapshot_leaves(max_entries)
    /\ UNCHANGED <<monitor, appended>>

BracketOps == {"begin_read", "end_read", "begin_write", "end_write"}

(* faulty variant: rwlog_end_read without a monitor reports success *)
rwlog_bracket_ret_on_null_EndReadSucceeds(op) ==
    IF op = "end_read" THEN 0 ELSE -1

(* what rwlog_begin_read, rwlog_end_read, rwlog_begin_write and            *)
(* rwlog_end_write return when monitor == NULL                             *)
rwlog_bracket_ret_on_null(op) == -1

(* a bracket operation called while there is no monitor: it returns at     *)
(* once, before it touches the mutex                                       *)
ApiBracketOnNull(op) ==
    /\ monitor = "NULL"
    /\ api' = Called(op, 0, rwlog_bracket_ret_on_null(op), <<>>)
    /\ UNCHANGED <<monitor, monVars, bufVars, appended>>

(* rwlog_wake_all called while there is no monitor (void) *)
ApiWakeAllOnNull ==
    /\ monitor = "NULL"
    /\ api' = Called("wake_all", 0, 0, <<>>)
    /\ UNCHANGED <<monitor, monVars, bufVars, appended>>

(* The reader/writer log before rwlog_create: no monitor, no thread. *)
NoRwlog ==
    /\ monitor = "NULL"
    /\ readers_active = 0
    /\ readers_waiting = 0
    /\ writers_waiting = 0
    /\ writer_active = 0
    /\ capacity = 0
    /\ head = 0
    /\ tail = 0
    /\ count = 0
    /\ next_seq = 0
    /\ entries = <<>>
    /\ appended = <<>>
    /\ api = NoCall
    /\ sig_pc = "none"
    /\ rw_main = "none"
    /\ NoStats
    /\ stop_flag = 0
    /\ batch_size = 0
    /\ rounds = 0
    /\ pc = [t \in Threads |-> "none"]
    /\ i = [w \in Writers |-> 0]
    /\ snap = [r \in Readers |-> <<>>]
    /\ timer_pc = "none"
    /\ mono_violation = FALSE
    /\ append_failed = FALSE

InitApi ==
    /\ NoRwlog
    /\ NoProdCon
    /\ NoAllocator

ApiFrame ==
    UNCHANGED <<progVars, cfgVars, sig_pc, rw_main, statVars, stop_flag, thrVars, timer_pc,
                errVars>>

NextApi ==
    \/ \E cap \in 0..(Capacity + 1), fails \in BOOLEAN :
           rwlog_create(cap, fails) /\ ApiFrame
    \/ rwlog_destroy /\ ApiFrame
    \/ \E e_null \in BOOLEAN, m \in Payloads, g \in Garbage :
           ApiAppend(e_null, m, g) /\ ApiFrame
    \/ \E buf_null \in BOOLEAN, max_entries \in 0..(Capacity + 2) :
           ApiSnapshot(buf_null, max_entries) /\ ApiFrame
    \/ \E op \in BracketOps : ApiBracketOnNull(op) /\ ApiFrame
    \/ ApiWakeAllOnNull /\ ApiFrame

ApiSpec == InitApi /\ [][NextApi]_vars

(***************************************************************************)
(* prodcon.c: producers and consumers around a circular buffer guarded by  *)
(* a mutex and the semaphores empty and full.  One action is a semaphore   *)
(* operation or the stretch of code between pthread_mutex_lock and         *)
(* pthread_mutex_unlock.  The data of an item is a short byte sequence     *)
(* (30 bytes in buffer.h); the usleep calls and the printf calls are left  *)
(* out, and the semaphore and mutex calls do not fail (no signal handler   *)
(* is installed that could interrupt a sem_wait).                          *)
(***************************************************************************)
Producers == {<<"p", k>> : k \in 1..NumProducers}
Consumers == {<<"c", k>> : k \in 1..NumConsumers}
Workers == Producers \cup Consumers

(* what rand() % 256 may fill item.data with *)
DataChoices == {<<1, 2>>, <<255, 255>>}

RECURSIVE ByteSum(_)
ByteSum(data) == IF data = <<>> THEN 0 ELSE Head(data) + ByteSum(Tail(data))

(* calculate_checksum: the sum of the bytes in a uint16_t *)
calculate_checksum(data) == ByteSum(data) % 65536

(* a slot of the zero-initialised global buffer *)
ZeroItem == [data |-> <<0, 0>>, cksum |-> 0]

(* faulty variant: sem_wait returns at once, whatever the value *)
sem_wait_returns_NoWait(sem) == TRUE

(* sem_wait returns, decrementing the semaphore, once its value is above 0 *)
sem_wait_returns(sem) == sem > 0

InitProdCon ==
    /\ buffer = [k \in 0..(BUFFER_SIZE - 1) |-> ZeroItem]
    /\ in = 0
    /\ out = 0
    /\ empty = BUFFER_SIZE
    /\ full = 0
    /\ running = 1
    /\ tpc = [t \in Workers |-> "loop"]
    /\ item = [t \in Workers |-> ZeroItem]
    /\ main_pc = "sleep"
    /\ inserted = <<>>
    /\ removed = <<>>
    /\ cksum_error = FALSE
    /\ NoRwlog
    /\ NoAllocator

ProdConFrame == UNCHANGED <<rwlogVars, allocVars>>

(* the number of items generated so far *)
Generated ==
    Len(inserted)
        + Cardinality({q \in Producers : tpc[q] \in {"wait_empty", "insert"}})

(* producer: the test of while (running), then a new item with its         *)
(* checksum.  At most MaxItems items are generated in a run.               *)
ProducerLoopTest(p) ==
    /\ tpc[p] = "loop"
    /\ IF running = 0
       THEN /\ tpc' = [tpc EXCEPT ![p] = "done"]
            /\ UNCHANGED item
       ELSE /\ Generated < MaxItems
            /\ \E d \in DataChoices :
                   item' = [item EXCEPT ![p] =
                              [data |-> d, cksum |-> calculate_checksum(d)]]
            /\ tpc' = [tpc EXCEPT ![p] = "wait_empty"]
    /\ UNCHANGED <<buffer, in, out, empty, full, running, main_pc, inserted,
                   removed, cksum_error>>

(* insert_item: sem_wait(&empty) returns *)
ProducerSemWait(p) ==
    /\ tpc[p] = "wait_empty"
    /\ sem_wait_returns(empty)
    /\ empty' = empty - 1
    /\ tpc' = [tpc EXCEPT ![p] = "insert"]
    /\ UNCHANGED <<buffer, in, out, full, running, item, main_pc, inserted,
                   removed, cksum_error>>

(* insert_item: the critical section *)
ProducerInsert(p) ==
    /\ tpc[p] = "insert"
    /\ buffer' = [buffer EXCEPT ![in] = item[p]]
    /\ in' = (in + 1) % BUFFER_SIZE
    /\ inserted' = Append(inserted, item[p])
    /\ tpc' = [tpc EXCEPT ![p] = "post_full"]
    /\ UNCHANGED <<out, empty, full, running, item, main_pc, removed,
                   cksum_error>>

(* insert_item: sem_post(&full), and back to the loop test (the local item *)
(* is not read again before it is filled anew)                             *)
ProducerSemPost(p) ==
    /\ tpc[p] = "post_full"
    /\ full' = full + 1
    /\ tpc' = [tpc EXCEPT ![p] = "loop"]
    /\ item' = [item EXCEPT ![p] = ZeroItem]
    /\ UNCHANGED <<buffer, in, out, empty, running, main_pc, inserted,
                   removed, cksum_error>>

(* consumer: the test of while (running) *)
ConsumerLoopTest(c) ==
    /\ tpc[c] = "loop"
    /\ tpc' = [tpc EXCEPT ![c] = IF running = 0 THEN "done" ELSE "wait_full"]
    /\ UNCHANGED <<buffer, in, out, empty, full, running, item, main_pc,
                   inserted, removed, cksum_error>>

(* remove_item: sem_wait(&full) returns *)
ConsumerSemWait(c) ==
    /\ tpc[c] = "wait_full"
    /\ sem_wait_returns(full)
    /\ full' = full - 1
    /\ tpc' = [tpc EXCEPT ![c] = "remove"]
    /\ UNCHANGED <<buffer, in, out, empty, running, item, main_pc, inserted,
                   removed, cksum_error>>

(* remove_item: the critical section *)
ConsumerRemove(c) ==
    /\ tpc[c] = "remove"
    /\ item' = [item EXCEPT ![c] = buffer[out]]
    /\ out' = (out + 1) % BUFFER_SIZE
    /\ removed' = Append(removed, buffer[out])
    /\ tpc' = [tpc EXCEPT ![c] = "post_empty"]
    /\ UNCHANGED <<buffer, in, empty, full, running, main_pc, inserted,
                   cksum_error>>

(* remove_item: sem_post(&empty); then the consumer verifies the checksum  *)
(* of its copy and calls exit on a mismatch                                *)
ConsumerSemPost(c) ==
    /\ tpc[c] = "post_empty"
    /\ empty' = empty + 1
    /\ IF calculate_checksum(item[c].data) = item[c].cksum
       THEN /\ tpc' = [tpc EXCEPT ![c] = "loop"]
            /\ UNCHANGED <<cksum_error, main_pc>>
       ELSE /\ cksum_error' = TRUE
            /\ tpc' = [t \in Workers |-> "exited"]
            /\ main_pc' = "exited"
    /\ item' = [item EXCEPT ![c] = ZeroItem]
    /\ UNCHANGED <<buffer, in, out, full, running, inserted, removed>>

(* main: sleep(delay) returns, running = 0 *)
MainStop ==
    /\ main_pc = "sleep"
    /\ running' = 0
    /\ main_pc' = "join"
    /\ UNCHANGED <<buffer, in, out, empty, full, tpc, item, inserted, removed,
                   cksum_error>>

(* main: the pthread_join calls return once every thread has returned *)
MainJoin ==
    /\ main_pc = "join"
    /\ \A t \in Workers : tpc[t] = "done"
    /\ main_pc' = "done"
    /\ UNCHANGED <<buffer, in, out, empty, full, running, tpc, item, inserted,
                   removed, cksum_error>>

ProducerStep(p) ==
    ProducerLoopTest(p) \/ ProducerSemWait(p) \/ ProducerInsert(p)
        \/ ProducerSemPost(p)

ConsumerStep(c) ==
    ConsumerLoopTest(c) \/ ConsumerSemWait(c) \/ ConsumerRemove(c)
        \/ ConsumerSemPost(c)

NextProdCon ==
    \/ \E p \in Producers : ProducerStep(p) /\ ProdConFrame
    \/ \E c \in Consumers : ConsumerStep(c) /\ ProdConFrame
    \/ MainStop /\ ProdConFrame
    \/ MainJoin /\ ProdConFrame

(* fair scheduling of the threads and of main *)
ProdConSpec ==
    /\ InitProdCon
    /\ [][NextProdCon]_vars
    /\ \A t \in Producers : WF_vars(ProducerStep(t) /\ ProdConFrame)
    /\ \A t \in Consumers : WF_vars(ConsumerStep(t) /\ ProdConFrame)
    /\ WF_vars((MainStop \/ MainJoin) /\ ProdConFrame)

(***************************************************************************)
(* main of rw_main.c: the threads are created one after the other, timer   *)
(* first, then the writers, then the readers, and each runs from its       *)
(* creation on.  A failing pthread_create (or malloc of a thread array)    *)
(* makes main call rwlog_destroy and return 1; otherwise main joins all    *)
(* threads and then calls rwlog_destroy.  (The CSV dump and the averages   *)
(* in between are made by main alone and are left out.)                    *)
(***************************************************************************)
TimerThread == <<"t", 0>>

CreationOrder ==
    <<TimerThread>> \o [k \in 1..NumWriters |-> <<"w", k>>]
                    \o [k \in 1..NumReaders |-> <<"r", k>>]

Created(t) == IF t = TimerThread THEN timer_pc # "none" ELSE pc[t] # "none"

(* the position in CreationOrder of the thread main creates next *)
NextToCreate ==
    CHOOSE k \in 1..Len(CreationOrder) :
        /\ ~Created(CreationOrder[k])
        /\ \A j \in 1..(k - 1) : Created(CreationOrder[j])

(* Threads that may be inside a call on the monitor, past its test of      *)
(* monitor == NULL, when rwlog_destroy runs: what such a thread does with  *)
(* the released mutex and memory is undefined ("ub").  A thread in         *)
(* pthread_cond_wait is inside a call in any case.                         *)
MidCall == {t \in Threads : pc[t] \in {"begin", "snap", "batch", "end"}}

InCondWait == {t \in Threads : pc[t] \in {"wait", "woken"}}

(* rwlog_destroy while threads run *)
DestroyUnderThreads ==
    /\ rwlog_destroy
    /\ \E U \in SUBSET MidCall :
           pc' = [t \in Threads |->
                    IF t \in U \cup InCondWait THEN "ub" ELSE pc[t]]
    /\ timer_pc' \in IF timer_pc = "wake" THEN {"wake", "ub"} ELSE {timer_pc}

(* one turn of main's creation code; fails: pthread_create, or the malloc  *)
(* of the thread array before the first writer or reader, fails            *)
MainCreate(fails) ==
    /\ rw_main = "create"
    /\ LET k == NextToCreate
           t == CreationOrder[k]
       IN  IF fails
           THEN /\ DestroyUnderThreads
                /\ rw_main' = "failed"
           ELSE /\ IF t = TimerThread
                   THEN timer_pc' = "sleep" /\ UNCHANGED pc
                   ELSE pc' = [pc EXCEPT ![t] = "loop"] /\ UNCHANGED timer_pc
                /\ rw_main' = IF k = Len(CreationOrder) THEN "join"
                              ELSE "create"
                /\ UNCHANGED <<monitor, api, monVars, bufVars, appended>>
    /\ UNCHANGED <<progVars, cfgVars, sig_pc, statVars, stop_flag, i, snap, rounds,
                   errVars>>

(* main returns 1 after the failure: the process ends, with all threads *)
MainReturn ==
    /\ rw_main = "failed"
    /\ rw_main' = "exited"
    /\ pc' = [t \in Threads |-> "exited"]
    /\ timer_pc' = "exited"
    /\ UNCHANGED <<monVars, bufVars, progVars, cfgVars, monitor, api, sig_pc, statVars,
                   stop_flag, i, snap, rounds, errVars, appended>>

(* all pthread_join calls have returned: rwlog_destroy, return 0 *)
MainJoinAll ==
    /\ rw_main = "join"
    /\ timer_pc = "done"
    /\ \A t \in Threads : pc[t] = "done"
    /\ rwlog_destroy
    /\ rw_main' = "exited"
    /\ UNCHANGED <<progVars, cfgVars, sig_pc, statVars, stop_flag, thrVars, timer_pc,
                   errVars>>

(* faulty variant: a thread whose begin call failed tries again *)
AfterFailedBegin_Retries == "loop"

(* reader_thread, writer_thread: break after a failed begin call, the      *)
(* thread returns                                                          *)
AfterFailedBegin == "done"

(* A call on the monitor by thread t that finds monitor == NULL: it        *)
(* returns -1 and touches nothing.  A failed begin or end call breaks the  *)
(* while loop; a failed snapshot gives count = -1 and the reader goes on   *)
(* to rwlog_end_read; a failed append breaks the for loop and the writer   *)
(* goes on to rwlog_end_write.                                             *)
CallWithoutMonitor(t) ==
    /\ monitor = "NULL"
    /\ \/ /\ pc[t] = "begin"
          /\ pc' = [pc EXCEPT ![t] = AfterFailedBegin]
          /\ UNCHANGED append_failed
       \/ /\ pc[t] = "snap"
          /\ pc' = [pc EXCEPT ![t] = "end"]
          /\ UNCHANGED append_failed
       \/ /\ pc[t] = "batch"
          /\ pc' = [pc EXCEPT ![t] = "end"]
          /\ append_failed' =
                 (append_failed \/ (i[t] < batch_size /\ stop_flag = 0))
       \/ /\ pc[t] = "end"
          /\ pc' = [pc EXCEPT ![t] = "done"]
          /\ UNCHANGED append_failed
    /\ UNCHANGED <<monVars, bufVars, progVars, cfgVars, envVars, stop_flag, i,
                   snap, rounds, timer_pc, mono_violation, appended>>

(* the timer's rwlog_wake_all finds monitor == NULL and returns *)
TimerWakeWithoutMonitor ==
    /\ monitor = "NULL"
    /\ timer_pc = "wake"
    /\ timer_pc' = "done"
    /\ UNCHANGED <<monVars, bufVars, progVars, cfgVars, envVars, stop_flag,
                   pc, i, snap, rounds, errVars, appended>>

(* The writers start one iteration fewer than in Spec, where the run with  *)
(* all threads created is followed in full.                                *)
InitMain ==
    /\ InitMonitor
    /\ batch_size = Batch
    /\ rounds = MaxRounds - 1
    /\ stop_flag = 0
    /\ pc = [t \in Threads |-> "none"]
    /\ i = [w \in Writers |-> 0]
    /\ snap = [r \in Readers |-> <<>>]
    /\ timer_pc = "none"
    /\ mono_violation = FALSE
    /\ append_failed = FALSE
    /\ appended = <<>>
    /\ monitor = "live"
    /\ api = NoCall
    /\ sig_pc = "none"
    /\ rw_main = "create"
    /\ NoStats
    /\ NoProdCon
    /\ NoAllocator

NextMain ==
    \/ monitor = "live" /\ Next
    \/ /\ monitor = "NULL"
       /\ \/ \E r \in Readers : ReaderLoopTest(r)
          \/ \E w \in Writers : WriterLoopTest(w)
          \/ TimerExpire
    \/ \E fails \in BOOLEAN : MainCreate(fails)
    \/ MainReturn
    \/ MainJoinAll
    \/ \E t \in Threads : CallWithoutMonitor(t)
    \/ TimerWakeWithoutMonitor

MainSpec == InitMain /\ [][NextMain]_vars

(***************************************************************************)
(* The two mutexes of rw_log, lock by lock.  Every rwlog_* call takes      *)
(* monitor->mutex, runs its region and releases the mutex (in              *)
(* pthread_cond_wait or before it returns); writer_thread and              *)
(* reader_thread take stats_mutex around each statistics update.  Here a   *)
(* lock, the region under it and the unlock are separate steps, so that a  *)
(* state shows who holds what.                                             *)
(***************************************************************************)
(* the number of samples the arrays take (10000 in rw_main.c) *)
SampleLimit == MaxSamples

(* where a thread stands: its position and, for a writer, its i *)
Position(t) ==
    IF t = TimerThread THEN <<timer_pc, 0>>
    ELSE <<pc[t], IF t \in Writers THEN i[t] ELSE 0>>

(* the thread is at a pthread_mutex_lock(&monitor->mutex), or back from    *)
(* its wait inside pthread_cond_wait                                       *)
WantsMutex(t) ==
    IF t = TimerThread THEN timer_pc = "wake"
    ELSE \/ stat_pc[t] = "none" /\ pc[t] \in {"begin", "woken", "snap", "end"}
         \/ stat_pc[t] = "append"

(* faulty variant: the call returns with monitor->mutex still locked *)
ReleasedBy_KeepsMutex(t) == mutex

(* pthread_mutex_unlock(&monitor->mutex), or the release inside            *)
(* pthread_cond_wait                                                       *)
ReleasedBy(t) == Free

(* pthread_mutex_lock(&monitor->mutex) returns in thread t *)
MutexLock(t) ==
    /\ WantsMutex(t)
    /\ mutex.owner = Nobody
    /\ mutex' = [owner |-> t, at |-> Position(t)]
    /\ UNCHANGED <<monVars, bufVars, progVars, cfgVars, monitor, api, sig_pc, rw_main,
                   stats_mutex, stat_pc, writer_wait_count, reader_cs_count,
                   total_entries_written, stop_flag, thrVars, timer_pc, errVars, appended>>

(* the code of the call between its lock and its unlock (or its wait) *)
MutexRegion(t) ==
    /\ mutex.owner = t
    /\ Position(t) = mutex.at
    /\ IF t = TimerThread THEN TimerWakeAll
       ELSE IF t \in Readers
       THEN BeginRead(t) \/ ReaderWake(t) \/ ReaderSnapshot(t) \/ ReaderEnd(t)
       ELSE \/ BeginWrite(t) \/ WriterWake(t) \/ WriterEnd(t)
            \/ /\ stat_pc[t] = "append"
               /\ WriterAppend(t)
               /\ UNCHANGED <<monVars, progVars, cfgVars, envVars, stop_flag, snap,
                              rounds, timer_pc, mono_violation>>

(* what the thread does once the call has returned: writer_thread records  *)
(* the wait time after rwlog_begin_write and counts the entry after a      *)
(* successful rwlog_append, reader_thread records the critical-section     *)
(* time after rwlog_end_read                                               *)
AfterCall(t) ==
    IF t \in Writers
    THEN IF mutex.at[1] \in {"begin", "woken"} /\ pc[t] = "batch" THEN "lock"
         ELSE IF stat_pc[t] = "append"
              THEN IF i[t] > mutex.at[2] THEN "lock" ELSE "none"
              ELSE stat_pc[t]
    ELSE IF mutex.at[1] = "end" /\ pc[t] = "loop" THEN "lock" ELSE stat_pc[t]

(* the region is over: the mutex is released (a waiter blocks in           *)
(* pthread_cond_wait, anyone else returns from the call)                   *)
MutexUnlock(t) ==
    /\ mutex.owner = t
    /\ Position(t) # mutex.at
    /\ mutex' = ReleasedBy(t)
    /\ stat_pc' = IF t = TimerThread THEN stat_pc
                  ELSE [stat_pc EXCEPT ![t] = AfterCall(t)]
    /\ UNCHANGED <<monVars, bufVars, progVars, cfgVars, monitor, api, sig_pc, rw_main,
                   stats_mutex, writer_wait_count, reader_cs_count,
                   total_entries_written, stop_flag, thrVars, timer_pc, errVars, appended>>

(* the test of for (i = 0; i < batch_size && !stop_flag; i++)): into       *)
(* rwlog_append, or out of the loop                                        *)
BatchTest(w) ==
    /\ pc[w] = "batch"
    /\ stat_pc[w] = "none"
    /\ mutex.owner # w
    /\ IF i[w] < batch_size /\ stop_flag = 0
       THEN /\ stat_pc' = [stat_pc EXCEPT ![w] = "append"]
            /\ UNCHANGED pc
       ELSE /\ pc' = [pc EXCEPT ![w] = AfterBatchLoop]
            /\ UNCHANGED stat_pc
    /\ UNCHANGED <<monVars, bufVars, progVars, cfgVars, monitor, api, sig_pc, rw_main,
                   mutex, stats_mutex, writer_wait_count, reader_cs_count,
                   total_entries_written, stop_flag, i, snap, rounds, timer_pc, errVars,
                   appended>>

(* the test of while (!stop_flag), made outside every call *)
LoopTest(t) ==
    /\ stat_pc[t] = "none"
    /\ mutex.owner # t
    /\ IF t \in Readers THEN ReaderLoopTest(t) ELSE WriterLoopTest(t)

StatsFrame ==
    UNCHANGED <<monVars, bufVars, progVars, cfgVars, monitor, api, sig_pc, rw_main, mutex,
                stop_flag, thrVars, timer_pc, errVars, appended>>

(* pthread_mutex_lock(&stats_mutex) returns in thread t *)
StatsLock(t) ==
    /\ stat_pc[t] = "lock"
    /\ stats_mutex = Nobody
    /\ stats_mutex' = t
    /\ stat_pc' = [stat_pc EXCEPT ![t] = "access"]
    /\ UNCHANGED <<writer_wait_count, reader_cs_count, total_entries_written>>
    /\ StatsFrame

(* if (count < 10000) times[count++] = ... *)
Sampled(n) == IF n < SampleLimit THEN n + 1 ELSE n

(* the statement between the lock and the unlock of stats_mutex *)
StatsAccess(t) ==
    /\ stat_pc[t] = "access"
    /\ stat_pc' = [stat_pc EXCEPT ![t] = "unlock"]
    /\ IF t \in Readers
       THEN /\ reader_cs_count' = Sampled(reader_cs_count)
            /\ UNCHANGED <<writer_wait_count, total_entries_written>>
       ELSE IF i[t] = 0
       THEN /\ writer_wait_count' = Sampled(writer_wait_count)
            /\ UNCHANGED <<reader_cs_count, total_entries_written>>
       ELSE /\ total_entries_written' = total_entries_written + 1
            /\ UNCHANGED <<reader_cs_count, writer_wait_count>>
    /\ UNCHANGED stats_mutex
    /\ StatsFrame

(* pthread_mutex_unlock(&stats_mutex) *)
StatsUnlock(t) ==
    /\ stat_pc[t] = "unlock"
    /\ stats_mutex' = Nobody
    /\ stat_pc' = [stat_pc EXCEPT ![t] = "none"]
    /\ UNCHANGED <<writer_wait_count, reader_cs_count, total_entries_written>>
    /\ StatsFrame

(* a waiter that has released the mutex may be woken at any time *)
WakeInWait(t) ==
    /\ mutex.owner # t
    /\ SpuriousWake(t)

NextStats ==
    \/ \E t \in Threads \cup {TimerThread} : MutexLock(t)
    \/ \E t \in Threads \cup {TimerThread} : MutexRegion(t)
    \/ \E t \in Threads \cup {TimerThread} : MutexUnlock(t)
    \/ \E w \in Writers : BatchTest(w)
    \/ \E t \in Threads : LoopTest(t)
    \/ \E t \in Threads : StatsLock(t)
    \/ \E t \in Threads : StatsAccess(t)
    \/ \E t \in Threads : StatsUnlock(t)
    \/ TimerExpire
    \/ \E t \in Threads : WakeInWait(t)

(* rw_log -r 1 -w 2: two writers, one reader and the timer, all created *)
StatsWorkers == {<<"w", 1>>, <<"w", 2>>, <<"r", 1>>}

InitStats ==
    /\ InitMonitor
    /\ batch_size = Batch
    /\ rounds = MaxRounds
    /\ stop_flag = 0
    /\ pc = [t \in Threads |-> IF t \in StatsWorkers THEN "loop" ELSE "none"]
    /\ i = [w \in Writers |-> 0]
    /\ snap = [r \in Readers |-> <<>>]
    /\ timer_pc = "sleep"
    /\ mono_violation = FALSE
    /\ append_failed = FALSE
    /\ appended = <<>>
    /\ monitor = "live"
    /\ api = NoCall
    /\ sig_pc = "none"
    /\ rw_main = "join"
    /\ NoStats
    /\ NoProdCon
    /\ NoAllocator

StatsSpec == InitStats /\ [][NextStats]_vars

(***************************************************************************)
(* allocator.c: the block list of g_allocator under the commands RQ, RL    *)
(* and C.  The linked list is a sequence of blocks in list order.  STAT    *)
(* and SIM change nothing of their own, and malloc is taken to succeed     *)
(* (the sizes stay far below SIZE_MAX).                                    *)
(***************************************************************************)
ProcessNames == {<<"P", k>> : k \in 1..NumProcesses}

Strategies == {"F", "B", "W"}

create_block(start, end, type, process_name) ==
    [start |-> start, end |-> end, size |-> end - start, type |-> type,
     process_name |-> process_name]

(* the position after which insert_block's loop stops, from position k on *)
RECURSIVE InsertionPoint(_, _, _)
InsertionPoint(list, k, new_block) ==
    IF k < Len(list) /\ list[k + 1].start < new_block.start
    THEN InsertionPoint(list, k + 1, new_block)
    ELSE k

(* faulty variant: the block is always put at the head of the list *)
insert_block_AtHead(list, new_block) == <<new_block>> \o list

(* insert_block: the list with new_block put in by start address *)
insert_block(list, new_block) ==
    IF list = <<>> THEN <<new_block>>
    ELSE IF new_block.start < list[1].start THEN <<new_block>> \o list
    ELSE LET k == InsertionPoint(list, 1, new_block)
         IN  SubSeq(list, 1, k) \o <<new_block>> \o SubSeq(list, k + 1, Len(list))

(* merge_adjacent_holes, with current at position k *)
RECURSIVE MergeFrom(_, _)
MergeFrom(list, k) ==
    IF k >= Len(list) THEN list
    ELSE IF /\ list[k].type = "FREE" /\ list[k + 1].type = "FREE"
            /\ list[k].end = list[k + 1].start
         THEN MergeFrom(
                  SubSeq(list, 1, k - 1)
                      \o <<[list[k] EXCEPT
                              !.end = list[k + 1].end,
                              !.size = list[k + 1].end - list[k].start]>>
                      \o SubSeq(list, k + 2, Len(list)),
                  k)
         ELSE MergeFrom(list, k + 1)

merge_adjacent_holes(list) == MergeFrom(list, 1)

(* the holes a request of this size fits in, by position *)
Fitting(list, size) ==
    {k \in 1..Len(list) : list[k].type = "FREE" /\ list[k].size >= size}

(* The chosen hole at position k becomes the allocation: as it is on an    *)
(* exact fit (unless always_split), else its front part, in a new block    *)
(* linked in before it.                                                    *)
AllocateAt(list, k, size, process_name, always_split) ==
    IF list[k].size = size /\ ~always_split
    THEN [list EXCEPT ![k].type = "ALLOCATED",
                      ![k].process_name = process_name]
    ELSE LET allocated_start == list[k].start
             allocated_end == allocated_start + size
         IN  SubSeq(list, 1, k - 1)
                 \o <<create_block(allocated_start, allocated_end,
                                   "ALLOCATED", process_name)>>
                 \o <<[list[k] EXCEPT !.start = allocated_end,
                                      !.size = list[k].end - allocated_end]>>
                 \o SubSeq(list, k + 1, Len(list))

(* allocate_first_fit: the first hole that is large enough *)
FirstFitHole(list, size) ==
    CHOOSE k \in Fitting(list, size) : \A j \in Fitting(list, size) : k <= j

(* allocate_best_fit: the first of the smallest holes that are large       *)
(* enough                                                                  *)
BestFitHole(list, size) ==
    CHOOSE k \in Fitting(list, size) :
        \A j \in Fitting(list, size) :
            \/ list[k].size < list[j].size
            \/ (list[k].size = list[j].size /\ k <= j)

(* allocate_worst_fit: the first of the largest holes that are large       *)
(* enough and not of size 0 (worst_size starts at 0)                       *)
WorstFitCandidates(list, size) ==
    {k \in Fitting(list, size) : list[k].size > 0}

WorstFitHole(list, size) ==
    CHOOSE k \in WorstFitCandidates(list, size) :
        \A j \in WorstFitCandidates(list, size) :
            \/ list[k].size > list[j].size
            \/ (list[k].size = list[j].size /\ k <= j)

(* allocate_memory: does the request find a hole, and the list after it *)
CanAllocate(list, size, strategy) ==
    IF strategy = "W" THEN WorstFitCandidates(list, size) # {}
    ELSE Fitting(list, size) # {}

allocate_memory(list, size, process_name, strategy) ==
    IF strategy = "F"
    THEN AllocateAt(list, FirstFitHole(list, size), size, process_name, FALSE)
    ELSE IF strategy = "B"
    THEN AllocateAt(list, BestFitHole(list, size), size, process_name, FALSE)
    ELSE AllocateAt(list, WorstFitHole(list, size), size, process_name, TRUE)

(* the allocated blocks of the list, in list order *)
AllocatedBlocks(list) == SelectSeq(list, LAMBDA b : b.type = "ALLOCATED")

FreeBlocks(list) == SelectSeq(list, LAMBDA b : b.type = "FREE")

HasProcess(list, process_name) ==
    \E k \in 1..Len(list) :
        list[k].type = "ALLOCATED" /\ list[k].process_name = process_name

(* release_memory: the first block of the process becomes a hole, then the *)
(* holes are merged                                                        *)
release_memory(list, process_name) ==
    LET k == CHOOSE k \in 1..Len(list) :
                 /\ list[k].type = "ALLOCATED"
                 /\ list[k].process_name = process_name
                 /\ \A j \in 1..(k - 1) :
                        ~(list[j].type = "ALLOCATED"
                            /\ list[j].process_name = process_name)
    IN  merge_adjacent_holes(
            [list EXCEPT ![k].type = "FREE", ![k].process_name = ""])

(* compact_memory's rebuild: the collected blocks info[k..] are created    *)
(* from next_start on and inserted, then the hole for what is left         *)
RECURSIVE Rebuild(_, _, _, _)
Rebuild(list, info, k, next_start) ==
    IF k > Len(info)
    THEN IF next_start < total_size
         THEN insert_block(list,
                           create_block(next_start, total_size, "FREE", ""))
         ELSE list
    ELSE Rebuild(insert_block(list,
                              create_block(next_start,
                                           next_start + info[k].size,
                                           "ALLOCATED", info[k].process_name)),
                 info, k + 1, next_start + info[k].size)

compact_memory(list) ==
    LET allocated_info == AllocatedBlocks(list)
    IN  IF Len(allocated_info) = 0 THEN list
        ELSE Rebuild(<<>>, allocated_info, 1, 0)

(* what the last command was, whether it succeeded, and how many holes     *)
(* there were before it                                                    *)
Command(op, ok) == [op |-> op, ok |-> ok, holes |-> Len(FreeBlocks(blocks))]

(* main: allocator_init(&g_allocator, memory_size) *)
InitAllocator ==
    /\ total_size = MemorySize
    /\ blocks = <<create_block(0, MemorySize, "FREE", "")>>
    /\ process_count = 0
    /\ cmd = [op |-> "none", ok |-> TRUE, holes |-> 1]
    /\ NoRwlog
    /\ NoProdCon

AllocFrame == UNCHANGED <<rwlogVars, pcVars>>

(* RQ <process> <size> <F|B|W>; size 0 is what parse_size gives for an     *)
(* invalid size                                                            *)
CommandRQ(process_name, size, strategy) ==
    IF \/ HasProcess(blocks, process_name)
       \/ size = 0
       \/ ~CanAllocate(blocks, size, strategy)
    THEN /\ cmd' = Command("RQ", FALSE)
         /\ UNCHANGED <<total_size, blocks, process_count>>
    ELSE /\ blocks' = allocate_memory(blocks, size, process_name, strategy)
         /\ process_count' = process_count + 1
         /\ cmd' = Command("RQ", TRUE)
         /\ UNCHANGED total_size

(* RL <process> *)
CommandRL(process_name) ==
    IF HasProcess(blocks, process_name)
    THEN /\ blocks' = release_memory(blocks, process_name)
         /\ process_count' = process_count - 1
         /\ cmd' = Command("RL", TRUE)
         /\ UNCHANGED total_size
    ELSE /\ cmd' = Command("RL", FALSE)
         /\ UNCHANGED <<total_size, blocks, process_count>>

(* C *)
CommandC ==
    /\ blocks' = compact_memory(blocks)
    /\ cmd' = Command("C", TRUE)
    /\ UNCHANGED <<total_size, process_count>>

NextAllocator ==
    \/ \E process_name \in ProcessNames, size \in 0..(MemorySize + 1),
          strategy \in Strategies :
           CommandRQ(process_name, size, strategy) /\ AllocFrame
    \/ \E process_name \in ProcessNames : CommandRL(process_name) /\ AllocFrame
    \/ CommandC /\ AllocFrame

AllocatorSpec == InitAllocator /\ [][NextAllocator]_vars

(***************************************************************************)
(* Properties                                                              *)
(***************************************************************************)
ActiveReaders == {r \in Readers : pc[r] \in {"snap", "end"}}
ActiveWriters == {w \in Writers : pc[w] \in {"batch", "end"}}

(* the sequence numbers of the live entries, oldest first *)
LiveSeqs == [k \in 1..count |-> entries[buffer_index(tail + (k - 1), capacity)].seq]

SeqRange(q) == {q[k] : k \in DOMAIN q}

Max(a, b) == IF a > b THEN a ELSE b

(* C1: mutual exclusion -- writer_active is never set while readers_active *)
(* > 0, at most one writer is between its return from rwlog_begin_write    *)
(* and its rwlog_end_write, and no reader is inside with it.               *)
C1_MutualExclusion ==
    /\ ~(writer_active = 1 /\ readers_active > 0)
    /\ Cardinality(ActiveWriters) <= 1
    /\ ~(ActiveWriters # {} /\ ActiveReaders # {})

(* a writer is inside while another writer and a reader, both woken from   *)
(* their waits, are about to re-test their conditions                      *)
C1_Witness ==
    \E w \in Writers, w2 \in Writers, r \in Readers :
        pc[w] = "batch" /\ pc[w2] = "woken" /\ pc[r] = "woken"

(* C2: writer preference -- whenever readers_active is incremented (a      *)
(* reader completes rwlog_begin_read), writer_active is 0 and              *)
(* writers_waiting is 0.                                                   *)
C2_ReaderEntersOnlyWithoutWriters ==
    [][readers_active' > readers_active
         => /\ writer_active = 0 /\ writers_waiting = 0
            /\ writer_active' = 0 /\ writers_waiting' = 0]_vars

(* a reader is inside, no writer is running, and yet another reader is     *)
(* blocked because a writer is queued                                      *)
C2_Witness ==
    \E r \in Readers, r2 \in Readers, w \in Writers :
        /\ pc[r] \in {"snap", "end"} /\ pc[r2] = "wait" /\ pc[w] = "wait"
        /\ writer_active = 0

(* C3: no starvation of writers -- under fair scheduling, with finitely    *)
(* many rwlog_begin_write calls in all, a writer that calls                *)
(* rwlog_begin_write eventually becomes active, however often the readers  *)
(* call rwlog_begin_read.                                                  *)
C3_WriterEventuallyActive ==
    \A w \in Writers : (pc[w] = "begin") ~> (pc[w] = "batch")

(* a writer is blocked behind two active readers while the other writer    *)
(* is queued too                                                           *)
C3_Witness ==
    \E w \in Writers, w2 \in Writers :
        /\ w # w2 /\ pc[w] = "wait" /\ pc[w2] \in {"wait", "woken"}
        /\ readers_active >= 2

(* C4: no starvation of readers -- under fair scheduling, with finitely    *)
(* many rwlog_begin_write calls in all, a reader that calls                *)
(* rwlog_begin_read eventually becomes active.                             *)
C4_ReaderEventuallyActive ==
    \A r \in Readers : (pc[r] = "begin") ~> (pc[r] = "snap")

(* two readers are blocked while a writer is inside and another is queued *)
C4_Witness ==
    /\ \A r \in Readers : pc[r] = "wait"
    /\ readers_waiting >= 2
    /\ writer_active = 1 /\ writers_waiting > 0

(* C5: no starvation at all -- with readers and writers looping without    *)
(* bound, under fair scheduling every thread that calls rwlog_begin_read   *)
(* or rwlog_begin_write eventually becomes active.                         *)
C5_NoStarvation ==
    \A t \in Threads : (pc[t] = "begin") ~> (pc[t] \in {"snap", "batch"})

(* C6: sequence monotonicity -- of two appends, by whichever writers, the *)
(* earlier one stored a strictly smaller sequence number; no sequence      *)
(* number is stored twice.                                                 *)
C6_SequencesStrictlyIncreasing ==
    \A a \in DOMAIN appended, b \in DOMAIN appended :
        a < b => appended[a] < appended[b]

(* entries of two different writers are live in the buffer *)
C6_Witness ==
    /\ Len(appended) >= 3
    /\ \E a \in DOMAIN entries, b \in DOMAIN entries :
           /\ entries[a].seq > 0 /\ entries[b].seq > 0
           /\ entries[a].tid # entries[b].tid

(* C7: in every snapshot a reader holds, each entry has a strictly larger  *)
(* sequence number than the one before it, also once the buffer has        *)
(* wrapped; the readers' monotonicity check never fires.                   *)
C7_SnapshotStrictlyIncreasing ==
    /\ mono_violation = FALSE
    /\ \A r \in Readers : \A k \in 2..Len(snap[r]) :
           snap[r][k].seq > snap[r][k - 1].seq

(* a reader holds a snapshot of a full buffer whose oldest entry is not in *)
(* slot 0: the copy wrapped around the end of the array                    *)
C7_Witness ==
    \E r \in Readers :
        /\ pc[r] = "end" /\ Len(snap[r]) = capacity /\ Len(snap[r]) >= 2
        /\ tail # 0

(* C8: capacity bound -- 0 <= count <= capacity always; an append on a     *)
(* full buffer leaves count unchanged, advances tail by one slot (mod      *)
(* capacity) and evicts exactly one entry, the one with the smallest live  *)
(* sequence number.                                                        *)
C8_AppendOnFull ==
    (appended' # appended /\ count = capacity)
        => /\ count' = count
           /\ tail' = (tail + 1) % capacity
           /\ SeqRange(LiveSeqs) \ SeqRange(LiveSeqs') = {LiveSeqs[1]}
           /\ \A q \in SeqRange(LiveSeqs) : LiveSeqs[1] <= q
           /\ SeqRange(LiveSeqs') \ SeqRange(LiveSeqs) = {appended'[Len(appended')]}

C8_CapacityBound ==
    /\ [](count >= 0 /\ count <= capacity)
    /\ [][C8_AppendOnFull]_vars

(* the buffer is full and more entries were appended than it holds *)
C8_Witness ==
    /\ count = capacity
    /\ Len(appended) > capacity
    /\ tail = 1

(* C9: rwlog_append succeeds in every buffer state, a full buffer          *)
(* included, and never waits: no writer ever reports a failed append, and  *)
(* a writer inside its batch can always take its next step.                *)
C9_AppendNeverFailsNorBlocks ==
    /\ append_failed = FALSE
    /\ \A w \in Writers : pc[w] = "batch" => ENABLED WriterBatch(w)

(* a writer goes on with its batch after an append on a full buffer *)
C9_Witness ==
    \E w \in Writers :
        /\ pc[w] = "batch" /\ i[w] > 0 /\ i[w] < batch_size
        /\ count = capacity /\ Len(appended) > capacity

(* C10: after n appends to the fresh buffer the live entries are exactly   *)
(* those with the sequence numbers max(1, n - capacity + 1) .. n, in this  *)
(* order from tail on: the first append gets 1, there are no gaps, and     *)
(* eviction is oldest-first.                                               *)
C10_LiveEntriesAreLatest ==
    LET n == Len(appended)
        first == Max(1, n - capacity + 1)
    IN  /\ \A k \in 1..n : appended[k] = k
        /\ LiveSeqs = [k \in 1..(n - first + 1) |-> first + (k - 1)]

(* capacity + 2 appends were made: the two oldest entries are gone *)
C10_Witness ==
    /\ Len(appended) = capacity + 2
    /\ LiveSeqs[1] = 3

Min(a, b) == IF a < b THEN a ELSE b

(* C11: rwlog_snapshot(buf, max_entries) returns min(count, max_entries)   *)
(* and copies that many entries, the oldest live ones: the k-th entry      *)
(* copied is the one in slot (tail + k - 1) mod capacity, and the copies   *)
(* carry consecutive sequence numbers from the oldest live one on.         *)
C11_SnapshotReturnsOldest ==
    (api.op = "snapshot" /\ api.ret >= 0)
        => LET n == Min(count, api.arg)
           IN  /\ api.ret = n
               /\ Len(api.out) = n
               /\ \A k \in 1..n :
                      /\ api.out[k] = entries[(tail + (k - 1)) % capacity]
                      /\ api.out[k].seq = (next_seq - count) + (k - 1)

(* rwlog_snapshot(buf, 2) on a wrapped buffer of three live entries, the   *)
(* oldest of which is not the first entry appended                         *)
C11_Witness ==
    /\ api.op = "snapshot" /\ api.arg = 2 /\ api.ret = 2
    /\ count = 3 /\ tail # 0
    /\ api.out[1].seq > 1

(* C12 as claimed: a rwlog_append that stores an entry returns the         *)
(* sequence number it stamped into that entry.                             *)
C12_AppendReturnsSequence ==
    (api.op = "append" /\ api.ret # -1 /\ Len(appended) > 0)
        => api.ret = appended[Len(appended)]

(* C12: a rwlog_append that stores an entry returns 0; the sequence number *)
(* of the stored entry is the value next_seq had before the call, and      *)
(* next_seq is one more after it.                                          *)
C12_AppendReturnsZero ==
    [][(api'.op = "append" /\ appended' # appended)
         => /\ api'.ret = 0
            /\ entries'[head].seq = next_seq
            /\ appended'[Len(appended')] = next_seq
            /\ next_seq' = next_seq + 1]_vars

(* the third entry was appended and the call returned 0 *)
C12_Witness ==
    /\ api.op = "append" /\ api.ret = 0
    /\ Len(appended) = 3 /\ appended[3] = 3

(* C15: rwlog_destroy always returns 0 and leaves no monitor behind;       *)
(* called while there is no monitor (never created, or destroyed already)  *)
(* it changes nothing, so that a second rwlog_destroy in a row leaves the  *)
(* state of the first.                                                     *)
C15_DestroyIdempotent ==
    /\ [](api.op = "destroy" => (api.ret = 0 /\ monitor = "NULL"))
    /\ [][(api'.op = "destroy" /\ monitor = "NULL")
            => (api'.ret = 0 /\ UNCHANGED <<monitor, monVars, bufVars>>)]_vars
    /\ [][(api.op = "destroy" /\ api'.op = "destroy")
            => UNCHANGED <<monitor, monVars, bufVars, api.ret>>]_vars

(* rwlog_destroy was called while there was no monitor *)
C15_Witness ==
    api.op = "destroy" /\ api.was = "NULL" /\ api.ret = 0

(* C16: rwlog_begin_read, rwlog_end_read, rwlog_begin_write,               *)
(* rwlog_end_write, rwlog_append and rwlog_snapshot, called while there is *)
(* no monitor, return -1, change no field and do not wait: each can be     *)
(* called again at once.                                                   *)
C16_NoMonitorCallsFail ==
    /\ []((api.op \in BracketOps \cup {"append", "snapshot"}
             /\ api.was = "NULL") => api.ret = -1)
    /\ [][(monitor = "NULL"
             /\ api'.op \in BracketOps \cup {"append", "snapshot"})
            => UNCHANGED <<monitor, monVars, bufVars, appended>>]_vars
    /\ [](monitor = "NULL"
            => /\ \A op \in BracketOps : ENABLED ApiBracketOnNull(op)
               /\ ENABLED ApiAppend(FALSE, "a", 0)
               /\ ENABLED ApiSnapshot(FALSE, 1))

(* rwlog_begin_write was called after the monitor was destroyed (or before *)
(* it was created) and returned -1                                         *)
C16_Witness ==
    /\ api.op = "begin_write" /\ api.was = "NULL" /\ api.ret = -1
    /\ monitor = "NULL"

(* C13: once stop_flag is set and rwlog_wake_all has been called, a thread *)
(* woken from its wait in rwlog_begin_read or rwlog_begin_write sees the   *)
(* flag and leaves the wait loop without access: it neither becomes        *)
(* active nor goes back to waiting.                                        *)
C13_WokenThreadsLeaveWithoutAccess ==
    [][(stop_flag = 1 /\ timer_pc = "done")
         => \A t \in Threads :
                pc[t] = "woken" => pc'[t] \notin {"wait", "snap", "batch"}]_vars

(* a call of rwlog_wake_all was made after stop_flag was set *)
WakeAllCalled ==
    stop_flag = 1 /\ (timer_pc = "done" \/ sig_pc \in {"done", "stuck"})

AllThreadsDone == \A t \in Threads : pc[t] = "done"

(* C14: once stop_flag is set and rwlog_wake_all has been called, by the   *)
(* timer or by the handler of SIGINT, the run does not come to rest before *)
(* every reader and writer thread has left its loop and returned: as long  *)
(* as a thread has not, some step is possible.                             *)
C14_ThreadsTerminateAfterStop ==
    WakeAllCalled => (AllThreadsDone \/ ENABLED NextSig)

(* C20: every call of rwlog_wake_all returns, whether made by the timer    *)
(* or by the handler of SIGINT and whether or not a thread is blocked, and *)
(* it leaves the four counters and the buffer as they were.                *)
C20_WakeAllCompletesAndChangesNothing ==
    /\ [](sig_pc # "stuck")
    /\ [][((timer_pc = "wake" /\ timer_pc' = "done")
             \/ (sig_pc # "done" /\ sig_pc' = "done"))
            => UNCHANGED <<monVars, bufVars>>]_vars

(* C17: a rwlog_end_write that finds writers_waiting = 0 wakes every       *)
(* reader blocked in rwlog_begin_read; as long as no writer is active or   *)
(* queued, each woken reader can take its next step whatever the others    *)
(* do, and with that step it is inside (readers_active is incremented), so *)
(* that the k woken readers are all inside together.                       *)
C17_EndWriteWakesAllReaders ==
    /\ [][(writer_active = 1 /\ writer_active' = 0 /\ writers_waiting = 0)
            => \A r \in Readers : pc[r] = "wait" => pc'[r] = "woken"]_vars
    /\ [][\A r \in Readers :
            (pc[r] = "woken" /\ pc'[r] # "woken"
               /\ writer_active = 0 /\ writers_waiting = 0)
              => (pc'[r] = "snap" /\ readers_active' = readers_active + 1)]_vars
    /\ [](\A r \in Readers : pc[r] = "woken" => ENABLED ReaderWake(r))

(* right after such a rwlog_end_write: every reader was blocked and is     *)
(* woken, none has re-tested yet, no writer is active or queued            *)
C17_Witness ==
    /\ \A r \in Readers : pc[r] = "woken"
    /\ readers_waiting = NumReaders
    /\ writer_active = 0 /\ writers_waiting = 0
    /\ \E w \in Writers : pc[w] = "loop" /\ Len(appended) > 0
    /\ timer_pc = "sleep"

(* C18: when the last active reader calls rwlog_end_read while a writer is *)
(* queued, a queued writer is woken; from then on no reader becomes active *)
(* before a writer has, whichever readers call rwlog_begin_read in         *)
(* between, and under fair scheduling a writer does become active.         *)
C18_WriterBeforeReaders ==
    /\ [][(readers_active > 0 /\ readers_active' = 0 /\ writers_waiting > 0)
            => \E w \in Writers : pc'[w] = "woken"]_vars
    /\ [][(readers_active = 0 /\ writers_waiting > 0)
            => readers_active' = 0]_vars
    /\ (readers_active = 0 /\ writers_waiting > 0) ~> (writer_active = 1)

(* the last reader has left and signalled the queued writer; another       *)
(* reader called rwlog_begin_read before the writer ran and is blocked     *)
C18_Witness ==
    /\ readers_active = 0 /\ writer_active = 0 /\ writers_waiting = 1
    /\ \E w \in Writers : pc[w] = "woken"
    /\ \E r \in Readers, r2 \in Readers :
           pc[r] = "loop" /\ pc[r2] = "wait" /\ readers_waiting = 1

(* C19: a reader that calls rwlog_begin_read while no writer is active or  *)
(* queued returns from it at once, inside, however many readers are        *)
(* inside already.                                                         *)
C19_ReadersShare ==
    /\ [][\A r \in Readers :
            (pc[r] = "begin" /\ pc'[r] # "begin"
               /\ writer_active = 0 /\ writers_waiting = 0)
              => (pc'[r] = "snap" /\ readers_active' = readers_active + 1)]_vars
    /\ [](\A r \in Readers : pc[r] = "begin" => ENABLED BeginRead(r))

(* two readers are inside at the same time *)
C19_Witness ==
    /\ readers_active >= 2
    /\ Cardinality(ActiveReaders) >= 2
    /\ writer_active = 0

(* C21: the monitor lets a thread that is inside go away without its       *)
(* rwlog_end_*; once a writer has done so no thread ever becomes active    *)
(* again, and once a reader has done so no writer ever becomes active      *)
(* again.                                                                  *)
C21_MissingEndBlocksOthers ==
    /\ [](\A t \in Threads :
             pc[t] \in {"snap", "batch", "end"} => ENABLED AbandonBracket(t))
    /\ [][(\E w \in Writers : pc[w] = "gone")
            => \A t \in Threads :
                   pc'[t] \in {"snap", "batch"} => pc'[t] = pc[t]]_vars
    /\ [][(\E r \in Readers : pc[r] = "gone")
            => \A w \in Writers : pc'[w] = "batch" => pc[w] = "batch"]_vars

(* a writer went away while inside, and every other thread is blocked in   *)
(* its rwlog_begin_* call                                                  *)
C21_Witness ==
    \E w \in Writers :
        /\ pc[w] = "gone" /\ writer_active = 1
        /\ \A t \in Threads \ {w} : pc[t] = "wait"

(* C22: after main has set running to 0 the program does not come to rest  *)
(* before every producer and every consumer has returned and main's joins  *)
(* have returned: as long as that is not so, some thread can take a step.  *)
C22_GracefulShutdown ==
    running = 0
        => \/ (main_pc = "done" /\ \A t \in Workers : tpc[t] = "done")
           \/ ENABLED NextProdCon

(* C23: the C command keeps the name and the size of every allocated block *)
(* and their order, puts them one after the other from address 0, and      *)
(* leaves the free memory as one hole, the last block, ending at           *)
(* total_size.                                                             *)
C23_CompactPreservesAndPacks ==
    [][cmd'.op = "C" =>
          LET before == AllocatedBlocks(blocks)
              after == AllocatedBlocks(blocks')
              holes == FreeBlocks(blocks')
              used == IF after = <<>> THEN 0 ELSE after[Len(after)].end
          IN  /\ Len(after) = Len(before)
              /\ \A k \in 1..Len(before) :
                     /\ after[k].process_name = before[k].process_name
                     /\ after[k].size = before[k].size
                     /\ after[k].end - after[k].start = before[k].size
                     /\ after[k].start = IF k = 1 THEN 0 ELSE after[k - 1].end
                     /\ blocks'[k] = after[k]
              /\ Len(holes) <= 1
              /\ Len(blocks') = Len(after) + Len(holes)
              /\ used < total_size => Len(holes) = 1
              /\ Len(holes) = 1 =>
                     /\ holes[1].start = used
                     /\ holes[1].end = total_size
                     /\ holes[1].size = total_size - used]_vars

(* a compaction of a memory that had two holes or more and holds two       *)
(* processes or more                                                       *)
C23_Witness ==
    /\ cmd.op = "C"
    /\ cmd.holes >= 2
    /\ Len(AllocatedBlocks(blocks)) >= 2
    /\ Len(FreeBlocks(blocks)) = 1

(* C24 as stated: whenever the buffer is not empty, count is               *)
(* (head - tail) mod capacity.                                             *)
C24_CountIsHeadMinusTail ==
    (monitor = "live" /\ count > 0) => count = (head - tail) % capacity

(* C24: whenever the buffer is not empty, count and head - tail are equal  *)
(* modulo capacity; on a full buffer head = tail and count = capacity.     *)
C24_CountCongruentHeadMinusTail ==
    (monitor = "live" /\ count > 0) =>
        /\ (head - tail) % capacity = count % capacity
        /\ count < capacity => count = (head - tail) % capacity
        /\ count = capacity => head = tail

(* a full buffer whose tail has already been advanced by an eviction *)
C24_Witness ==
    /\ monitor = "live"
    /\ api.op = "append"
    /\ api.ret = 0
    /\ count > 0
    /\ count = capacity
    /\ tail # 0

(* C25: head is (tail + count) mod capacity, head and tail are slots of    *)
(* the buffer, head equals tail exactly when the buffer is empty or full,  *)
(* and tail is 0 as long as no append has found the buffer full.           *)
C25_HeadTailCount ==
    monitor = "live" =>
        /\ head = (tail + count) % capacity
        /\ 0 <= head /\ head < capacity
        /\ 0 <= tail /\ tail < capacity
        /\ (head = tail) <=> (count = 0 \/ count = capacity)
        /\ Len(appended) <= capacity => tail = 0
        /\ count < capacity => tail = 0

(* a buffer of two slots or more that has wrapped: an append has evicted   *)
(* the oldest entry                                                        *)
C25_Witness ==
    /\ monitor = "live"
    /\ capacity >= 2
    /\ Len(appended) > capacity
    /\ head = tail
    /\ tail = 1

(* the slot written by the last append, and the entry stored in it *)
LastWritten == entries[(head + capacity - 1) % capacity]

(* C26 as stated: the stored copy has the caller's payload and the         *)
(* caller's producer id, the pre-increment sequence number and the         *)
(* monitor's timestamp.                                                    *)
C26_StoredCopyKeepsProducerId ==
    (api.op = "append" /\ api.ret = 0) =>
        /\ LastWritten.msg = api.entry.msg
        /\ LastWritten.tid = api.entry.tid
        /\ LastWritten.seq = next_seq - 1
        /\ LastWritten.ts = Now

(* C26: the stored copy has the caller's payload; its sequence number is   *)
(* the pre-increment next_seq, its tid the calling thread's id and its     *)
(* timestamp the monitor's clock reading, whatever the caller had set      *)
(* for these three.                                                        *)
C26_StoredCopyStamped ==
    (api.op = "append" /\ api.ret = 0) =>
        /\ LastWritten.msg = api.entry.msg
        /\ LastWritten.tid = Caller
        /\ LastWritten.seq = next_seq - 1
        /\ LastWritten.ts = Now

(* an append whose caller had set other values for seq, tid and ts *)
C26_Witness ==
    /\ api.op = "append" /\ api.ret = 0
    /\ api.entry.msg = "b"
    /\ api.entry.seq = 7
    /\ api.entry.tid = <<"none", 7>>
    /\ LastWritten.msg = "b"
    /\ LastWritten.seq # 7
    /\ LastWritten.tid = Caller

(* C27: a snapshot, for every max_entries, leaves the stored entries,      *)
(* head, tail, count, next_seq and the four counters of the monitor as     *)
(* they were, and it can always be carried out: it waits for nothing.      *)
C27_SnapshotPureRead ==
    /\ [][api'.op = "snapshot" =>
            UNCHANGED <<monitor, entries, capacity, head, tail, count,
                        next_seq, readers_active, readers_waiting,
                        writers_waiting, writer_active>>]_vars
    /\ [](\A buf_null \in BOOLEAN, max_entries \in 0..(Capacity + 2) :
            ENABLED (ApiSnapshot(buf_null, max_entries) /\ ApiFrame))

(* a snapshot of a part of a full buffer that has wrapped *)
C27_Witness ==
    /\ api.op = "snapshot"
    /\ api.ret >= 1
    /\ api.arg < count
    /\ count = capacity
    /\ tail # 0
    /\ api.out[1] = entries[tail]

(* the threads of S that the step unblocks from their condition variable *)
WokenBy(S) == {t \in S : pc[t] = "wait" /\ pc'[t] = "woken"}

BlockedIn(S) == {t \in S : pc[t] = "wait"}

EndWriteStep(w) == pc[w] = "end" /\ pc'[w] = "loop"

EndReadStep(r) == pc[r] = "end" /\ pc'[r] = "loop"

(* C28 as stated: rwlog_end_write clears writer_active and wakes exactly   *)
(* one blocked writer and no reader when writers_waiting > 0, else all     *)
(* blocked readers and no writer; rwlog_end_read wakes exactly one blocked *)
(* writer, and only when it brings readers_active to 0 with                *)
(* writers_waiting > 0, and nobody otherwise.                              *)
C28_EndWakesExactlyOneWriter ==
    [][/\ \A w \in Writers : EndWriteStep(w) =>
             /\ writer_active' = 0
             /\ IF writers_waiting > 0
                THEN /\ Cardinality(WokenBy(Writers)) = 1
                     /\ WokenBy(Readers) = {}
                ELSE /\ WokenBy(Readers) = BlockedIn(Readers)
                     /\ WokenBy(Writers) = {}
       /\ \A r \in Readers : EndReadStep(r) =>
             /\ WokenBy(Readers) = {}
             /\ WokenBy(Writers) # {} =>
                    /\ Cardinality(WokenBy(Writers)) = 1
                    /\ readers_active' = 0
                    /\ writers_waiting > 0
      ]_vars

(* C28: rwlog_end_write clears writer_active; when writers_waiting > 0 it  *)
(* wakes no reader and one of the writers blocked on write_cond, none if   *)
(* every waiting writer has been woken already; otherwise it wakes all     *)
(* blocked readers and no writer.  rwlog_end_read does the same for one    *)
(* writer when it brings readers_active to 0 with writers_waiting > 0,     *)
(* and wakes nobody otherwise.                                             *)
C28_EndWakesOneBlockedWriter ==
    [][/\ \A w \in Writers : EndWriteStep(w) =>
             /\ writer_active' = 0
             /\ IF writers_waiting > 0
                THEN /\ Cardinality(WokenBy(Writers)) =
                            IF BlockedIn(Writers) = {} THEN 0 ELSE 1
                     /\ WokenBy(Readers) = {}
                ELSE /\ WokenBy(Readers) = BlockedIn(Readers)
                     /\ WokenBy(Writers) = {}
       /\ \A r \in Readers : EndReadStep(r) =>
             /\ WokenBy(Readers) = {}
             /\ IF readers_active' = 0 /\ writers_waiting > 0
                THEN Cardinality(WokenBy(Writers)) =
                         IF BlockedIn(Writers) = {} THEN 0 ELSE 1
                ELSE WokenBy(Writers) = {}
      ]_vars

(* a writer about to call rwlog_end_write while another writer, counted    *)
(* in writers_waiting, has been woken already and none is blocked          *)
C28_Witness ==
    /\ \E w \in Writers : pc[w] = "end"
    /\ writer_active = 1
    /\ writers_waiting > 0
    /\ BlockedIn(Writers) = {}
    /\ \E w \in Writers : pc[w] = "woken"
    /\ BlockedIn(Readers) # {}

(* C29: a writer that calls rwlog_begin_write while another writer is      *)
(* already inside rwlog_begin_write, waiting, does not become active at    *)
(* this call: it never gets ahead of the writer that called first.         *)
C29_NoWriterOvertakes ==
    [][\A w \in Writers :
          (pc[w] = "begin" /\ pc'[w] = "batch") =>
              \A v \in Writers \ {w} : pc[v] \notin {"wait", "woken"}]_vars

(* the threads of S inside rwlog_begin_read or rwlog_begin_write, in       *)
(* pthread_cond_wait or on their way out of it                             *)
InsideBegin(S) == {t \in S : pc[t] \in {"wait", "woken"}}

(* C30: whenever the mutex is free, readers_active is the number of        *)
(* readers between rwlog_begin_read's return and rwlog_end_read,           *)
(* writer_active is 1 exactly when one writer is between                   *)
(* rwlog_begin_write's return and rwlog_end_write, readers_waiting is the  *)
(* number of readers blocked inside rwlog_begin_read, writers_waiting the  *)
(* number of writers that called rwlog_begin_write and are not yet active; *)
(* none is negative.                                                       *)
C30_CountersMatchPhases ==
    /\ readers_active = Cardinality(ActiveReaders)
    /\ writer_active \in {0, 1}
    /\ writer_active = 1 <=> Cardinality(ActiveWriters) = 1
    /\ writer_active = 0 <=> ActiveWriters = {}
    /\ readers_waiting = Cardinality(InsideBegin(Readers))
    /\ writers_waiting = Cardinality(InsideBegin(Writers))
    /\ readers_active >= 0 /\ readers_waiting >= 0 /\ writers_waiting >= 0

(* a writer is active, a second writer and both readers are inside their   *)
(* begin call, one of the readers woken and not yet running                *)
C30_Witness ==
    /\ writer_active = 1
    /\ writers_waiting = 1
    /\ readers_waiting = 2
    /\ \E r \in Readers : pc[r] = "woken"
    /\ \E w \in Writers : pc[w] = "wait"

(* C31: a writer's whole batch excludes readers: while a writer is between *)
(* rwlog_begin_write's return and rwlog_end_write no reader is active, no  *)
(* append is executed while readers_active > 0, and no snapshot is taken   *)
(* while a writer is inside its bracket, hence none between two appends of *)
(* a batch.                                                                *)
C31_BatchExcludesReaders ==
    /\ [](ActiveWriters # {} => (readers_active = 0 /\ ActiveReaders = {}))
    /\ [][appended' # appended =>
            (readers_active = 0 /\ readers_active' = 0)]_vars
    /\ [][\A r \in Readers :
            (pc[r] = "snap" /\ pc'[r] = "end") =>
                (ActiveWriters = {} /\ writer_active = 0)]_vars

(* a writer between the first and the second append of its batch, with a   *)
(* reader blocked in rwlog_begin_read                                      *)
C31_Witness ==
    \E w \in Writers, r \in Readers :
        /\ pc[w] = "batch"
        /\ i[w] = 1
        /\ batch_size >= 2
        /\ Len(appended) >= 1
        /\ pc[r] \in {"wait", "woken"}

(* the positions of a thread between its begin call's return and its end   *)
(* call                                                                    *)
InBracket(t) == IF t \in Readers THEN {"snap", "end"} ELSE {"batch", "end"}

(* C32: a worker that has returned from rwlog_begin_read/write leaves its  *)
(* bracket only through its own single rwlog_end_read/write, which it can  *)
(* always go on to; it starts its next begin call, or exits, only from the *)
(* loop test, and every end call is made by a thread inside its bracket,   *)
(* also when stop_flag is set in the middle of a batch.                    *)
C32_BeginEndPaired ==
    /\ [](\A t \in Threads :
            pc[t] \in InBracket(t) =>
                IF t \in Readers THEN ENABLED ReaderStep(t)
                ELSE ENABLED WriterStep(t))
    /\ [][\A t \in Threads :
            (pc[t] \in InBracket(t) /\ pc'[t] \notin InBracket(t)) =>
                /\ pc[t] = "end" /\ pc'[t] = "loop"
                /\ IF t \in Readers
                   THEN readers_active' = readers_active - 1
                   ELSE writer_active = 1 /\ writer_active' = 0]_vars
    /\ [][\A t \in Threads :
            (pc'[t] # pc[t] /\ pc'[t] \in {"begin", "done"}) =>
                pc[t] = "loop"]_vars
    /\ [][(readers_active' < readers_active \/ writer_active' < writer_active)
            => \E t \in Threads :
                   /\ pc[t] = "end" /\ pc'[t] = "loop"
                   /\ \A u \in Threads \ {t} :
                          pc[u] \in InBracket(u) => pc'[u] = pc[u]]_vars

(* the run was stopped while a writer was in its batch: the writer is on   *)
(* its way to rwlog_end_write with a part of the batch appended            *)
C32_Witness ==
    \E w \in Writers :
        /\ stop_flag = 1
        /\ pc[w] = "end"
        /\ i[w] = 1
        /\ batch_size >= 2
        /\ writer_active = 1

(* C35: a rwlog_create that returns failure (a monitor exists, capacity is *)
(* 0, or a construction step fails) leaves an existing monitor as it was   *)
(* and otherwise leaves no monitor; there is never a partly initialised    *)
(* monitor, so without a monitor every later operation reports failure     *)
(* and rwlog_destroy does nothing and returns 0.                           *)
C35_CreateFailsCleanly ==
    /\ [][(api'.op = "create" /\ api'.ret # 0) =>
            /\ api'.ret = -1
            /\ UNCHANGED <<monitor, monVars, bufVars>>
            /\ api'.was = "NULL" => monitor' = "NULL"]_vars
    /\ [][(api'.op = "create" /\ api'.was = "live") => api'.ret = -1]_vars
    /\ [][(api'.op = "create" /\ api'.arg = 0) => api'.ret = -1]_vars
    /\ [](monitor \in {"NULL", "live"})
    /\ [](monitor = "live" =>
            /\ capacity > 0
            /\ DOMAIN entries = 0..(capacity - 1)
            /\ next_seq >= 1
            /\ count <= capacity)
    /\ [][(monitor = "NULL"
             /\ api'.op \in BracketOps \cup {"append", "snapshot"}) =>
            (api'.ret = -1 /\ monitor' = "NULL")]_vars
    /\ [][(monitor = "NULL" /\ api'.op = "destroy") =>
            (api'.ret = 0 /\ monitor' = "NULL")]_vars

(* a construction step of rwlog_create(cap), cap > 0, has failed with no   *)
(* monitor in place                                                        *)
C35_Witness ==
    /\ api.op = "create"
    /\ api.ret = -1
    /\ api.arg > 0
    /\ api.was = "NULL"
    /\ monitor = "NULL"
    /\ entries = <<>>

SnapshotStep(r) == pc[r] = "snap" /\ pc'[r] = "end"

(* C36: a snapshot is the content of the buffer at the instant it is       *)
(* taken, inside the reader's bracket: the live entries, oldest first,     *)
(* which are the last entries appended by the write critical sections      *)
(* completed so far, no writer being inside one.  Of two snapshots the     *)
(* later one does not start at an older entry: the oldest live sequence    *)
(* number never goes down, and a snapshot taken while another reader still *)
(* holds its own does not start below that one.                            *)
C36_SnapshotsConsistent ==
    /\ [][\A r \in Readers : SnapshotStep(r) =>
            /\ r \in ActiveReaders
            /\ ActiveWriters = {}
            /\ \A w \in Writers : i[w] = 0
            /\ Len(snap'[r]) = Min(count, SnapshotMax)
            /\ \A k \in 1..Len(snap'[r]) :
                   /\ snap'[r][k] = entries[(tail + (k - 1)) % capacity]
                   /\ snap'[r][k].seq =
                          appended[Len(appended) - count + k]
            /\ \A q \in Readers \ {r} :
                   (snap[q] # <<>> /\ snap'[r] # <<>>) =>
                       snap'[r][1].seq >= snap[q][1].seq
            /\ \A q \in Readers \ {r} : snap[q] # <<>> => snap'[r] # <<>>
            /\ UNCHANGED <<entries, head, tail, count, next_seq>>]_vars
    /\ [][count > 0 => (count' > 0 /\ entries'[tail'].seq >= entries[tail].seq)
         ]_vars

(* two readers hold snapshots at once, and the later one was taken of a    *)
(* buffer that has wrapped                                                 *)
C36_Witness ==
    \E r \in Readers, q \in Readers :
        /\ r # q
        /\ pc[r] = "end" /\ pc[q] = "end"
        /\ Len(snap[r]) >= 2 /\ Len(snap[q]) >= 2
        /\ snap[r][1].seq > 1
        /\ snap[q][1].seq >= snap[r][1].seq

(* the while-condition thread t tests in its begin call *)
MustWait(t) == IF t \in Readers THEN ReaderMustWait ELSE WriterMustWait

(* C37: no deadlock and no lost wake-up: whenever a thread is blocked in   *)
(* rwlog_begin_read or rwlog_begin_write, a thread is active, or a thread  *)
(* that has been signalled is about to re-test a while-condition that no   *)
(* longer holds; in either case some thread can take a step.               *)
C37_NoDeadlockNoLostWakeup ==
    InsideBegin(Threads) # {} =>
        /\ \/ ActiveReaders \cup ActiveWriters # {}
           \/ \E t \in Threads : pc[t] = "woken" /\ ~MustWait(t)
        /\ \E t \in Threads :
               IF t \in Readers THEN ENABLED ReaderStep(t)
               ELSE ENABLED WriterStep(t)

(* nobody is active, both readers are blocked behind a queued writer, and  *)
(* that writer has been signalled and not yet run                          *)
C37_Witness ==
    /\ ActiveReaders \cup ActiveWriters = {}
    /\ \A r \in Readers : pc[r] = "wait"
    /\ \E w \in Writers : pc[w] = "woken"
    /\ \A w \in Writers : pc[w] \in {"woken", "loop", "done"}
    /\ stop_flag = 0

(* the number of items in the buffer: insertions minus removals *)
InBuffer == Len(inserted) - Len(removed)

(* C39: under every interleaving the number of items in the buffer stays   *)
(* between 0 and BUFFER_SIZE; the items inserted and not yet removed are   *)
(* still in their slots, from out on, so no producer has overwritten one;  *)
(* and the items removed are the first items inserted, each once and in    *)
(* the order of insertion, with checksums that verify.                     *)
C39_BoundedBufferFifo ==
    /\ 0 <= InBuffer /\ InBuffer <= BUFFER_SIZE
    /\ \A k \in 1..InBuffer :
           buffer[(out + (k - 1)) % BUFFER_SIZE] = inserted[Len(removed) + k]
    /\ in = (out + InBuffer) % BUFFER_SIZE
    /\ removed = SubSeq(inserted, 1, Len(removed))
    /\ cksum_error = FALSE

(* the buffer is full again after an item was delivered: the slot of the   *)
(* delivered item has been filled anew, and the producers' semaphore is at *)
(* 0                                                                       *)
C39_Witness ==
    /\ InBuffer = BUFFER_SIZE
    /\ Len(removed) >= 1
    /\ Len(inserted) > BUFFER_SIZE
    /\ empty = 0
    /\ buffer[(out + BUFFER_SIZE - 1) % BUFFER_SIZE] = inserted[Len(inserted)]

(* C40: after every sequence of RQ, RL and C commands the block list is    *)
(* sorted by start address and partitions [0, total_size) into blocks that *)
(* are not empty: the first starts at 0, each ends where the next starts,  *)
(* the last ends at total_size, every block has size = end - start > 0,    *)
(* and no two neighbouring blocks are both free.                           *)
C40_BlocksPartitionMemory ==
    /\ blocks # <<>>
    /\ blocks[1].start = 0
    /\ blocks[Len(blocks)].end = total_size
    /\ \A k \in 1..Len(blocks) :
           /\ blocks[k].size = blocks[k].end - blocks[k].start
           /\ blocks[k].size > 0
    /\ \A k \in 1..(Len(blocks) - 1) :
           /\ blocks[k].end = blocks[k + 1].start
           /\ blocks[k].start < blocks[k + 1].start
           /\ ~(blocks[k].type = "FREE" /\ blocks[k + 1].type = "FREE")

(* C33: in the driver a failed begin call, or a failed append, ends the    *)
(* loop of the thread it happens to: after a failed begin the thread       *)
(* returns at once, after a failed append it goes to its end call and      *)
(* returns from there, without another loop iteration.  The failing call   *)
(* leaves the four counters and the buffer as they were.                   *)
C33_FailedCallEndsLoop ==
    /\ [][\A t \in Threads :
            (monitor = "NULL" /\ pc[t] = "begin" /\ pc'[t] # "begin") =>
                (pc'[t] \in {"done", "exited"}
                    /\ UNCHANGED <<monVars, bufVars>>)]_vars
    /\ [][\A w \in Writers :
            (monitor = "NULL" /\ pc[w] = "batch" /\ pc'[w] # "batch") =>
                (pc'[w] \in {"end", "exited"}
                    /\ UNCHANGED <<monVars, bufVars>>)]_vars
    /\ [][\A t \in Threads :
            (monitor = "NULL" /\ pc[t] = "end" /\ pc'[t] # "end") =>
                (pc'[t] \in {"done", "exited"}
                    /\ UNCHANGED <<monVars, bufVars>>)]_vars
    /\ [][(append_failed' /\ ~append_failed) =>
            (monitor = "NULL" /\ UNCHANGED <<monVars, bufVars>>)]_vars
    /\ [](\A t \in Threads :
            (monitor = "NULL" /\ pc[t] \in {"begin", "batch", "end"}) =>
                ENABLED CallWithoutMonitor(t))

(* an append has failed in one writer, which is on its way out through     *)
(* rwlog_end_write, and a begin call has failed in another thread, which   *)
(* has returned                                                            *)
C33_Witness ==
    /\ monitor = "NULL"
    /\ append_failed
    /\ \E w \in Writers : pc[w] = "end"
    /\ \E t \in Threads : pc[t] = "done"
    /\ rw_main = "failed"

(* C38: rwlog_destroy is called only when every reader, writer and timer   *)
(* thread that was created has returned, so no thread is at or inside a    *)
(* call on the monitor when it is destroyed or afterwards.                 *)
C38_DestroyAfterThreadsEnd ==
    [][(monitor = "live" /\ monitor' = "NULL") =>
          /\ timer_pc \in {"none", "done"}
          /\ \A t \in Threads : pc[t] \in {"none", "done"}]_vars

(***************************************************************************)
(* C34: the statistics aggregates (the wait-time and critical-section      *)
(* samples and total_entries_written) are touched by a worker only while   *)
(* it holds stats_mutex, no thread ever holds monitor->mutex and           *)
(* stats_mutex together or waits for one of them while holding the other,  *)
(* and so the holder of either lock can always take its next step.         *)
(***************************************************************************)
StatsAggregates == <<writer_wait_count, reader_cs_count, total_entries_written>>

=============================================================================
